---- MODULE Spec2Model ----
(***************************************************************************)
(* HOC-POV: the output validator (PromptBuilder.validate_output), the      *)
(* classification-run records (backend/db/crud.py) and the run loop that   *)
(* drives them (spec.md 4.4; the repository holds no code for the loop).   *)
(*                                                                         *)
(* A text is a sequence of one-character strings.  A JSON / Python value   *)
(* is a record of one fixed shape, PyVal, tagged by t:                     *)
(*   "null" | "bool" (b) | "int" (n) | "float" (n / 10^sc) | "nan" |       *)
(*   "inf" | "ninf" | "str" (s) | "list" (l) | "dict" (d: <<[k, v]>> in    *)
(*   insertion order).                                                     *)
(* Numerals are modelled without exponent part and without negative zero;  *)
(* the texts the specifications draw stay inside that fragment.            *)
(***************************************************************************)
EXTENDS Integers, Sequences, FiniteSets, TLC

VARIABLES
    output_str,       \* validator: the model response handed to validate_output
    vres,             \* validator: how the call ended (VResult)
    vres2,            \* validator: how the call on json.dumps of the verdict ended
    vpc,              \* validator: "idle" | "start" | "validated" | "revalidated"
    runs,             \* store: run_id -> the ClassificationRun row ("none": no row)
    classifications,  \* store: the Classification rows, in insertion order
    emails,           \* store: the Email rows (id, project_id)
    opc,              \* run loop: "idle" | "created" | "running" | "done"
    orun,             \* run loop: the run_id of the run it drives (0: none)
    gateway,          \* model service: email id -> what generate ends with for it
    call,             \* the last call of a crud or client function: op and arguments
    ret,              \* what that call returned or raised
    wpc,              \* workers: worker -> "idle" | "generating"
    wemail,           \* workers: worker -> the email it has in flight (0: none)
    ollama,           \* the OllamaClient's cache fields, and the clock
    builder,          \* the PromptBuilder constructed last
    reviews,          \* the review table
    items             \* the sampling_item table

vvars == <<output_str, vres, vres2, vpc>>
rvars == <<runs, classifications, emails, opc, orun, gateway>>
wvars == <<wpc, wemail>>
cvars == <<ollama>>
pvars == <<builder>>
dvars == <<reviews, items>>
xvars == <<call, ret, wvars, cvars, pvars, dvars>>
vars == <<output_str, vres, vres2, vpc, runs, classifications, emails, opc, orun, gateway,
          call, ret, wpc, wemail, ollama, builder, reviews, items>>

(***************************** characters ********************************)

K_responsive == <<"r", "e", "s", "p", "o", "n", "s", "i", "v", "e">>
K_confidence == <<"c", "o", "n", "f", "i", "d", "e", "n", "c", "e">>
K_reason == <<"r", "e", "a", "s", "o", "n">>
K_labels == <<"l", "a", "b", "e", "l", "s">>
NoReasonProvided == <<"N", "o", " ", "r", "e", "a", "s", "o", "n", " ", "p", "r", "o", "v", "i", "d", "e", "d">>
Ellipsis == <<".", ".", ".">>
\* the backquote character is written "~" (a backquote cannot stand in a string here)
BQ == "~"
\* the backspace character (U+0008) is written "^H"
BS == "^H"
FenceOpen == <<BQ, BQ, BQ, "j", "s", "o", "n">>
FenceMark == <<BQ, BQ, BQ>>
LitTrue == <<"t", "r", "u", "e">>
LitFalse == <<"f", "a", "l", "s", "e">>
LitNull == <<"n", "u", "l", "l">>
LitNaN == <<"N", "a", "N">>
LitInfinity == <<"I", "n", "f", "i", "n", "i", "t", "y">>
LitNegInfinity == <<"-", "I", "n", "f", "i", "n", "i", "t", "y">>
PyTrue == <<"T", "r", "u", "e">>
PyFalse == <<"F", "a", "l", "s", "e">>
PyNone == <<"N", "o", "n", "e">>
PyNan == <<"n", "a", "n">>
PyInf == <<"i", "n", "f">>
PyNegInf == <<"-", "i", "n", "f">>

\* \s of the re module (ASCII part)
ReSpace == {" ", "\t", "\n", "\r", "\f"}
\* the whitespace json.loads skips
JsonWs == {" ", "\t", "\n", "\r"}
\* characters json.loads rejects raw inside a string (strict mode)
ControlChars == {"\t", "\n", "\r", "\f", BS}
Digits == <<"0", "1", "2", "3", "4", "5", "6", "7", "8", "9">>
DigitSet == {Digits[i] : i \in 1..10}
DigitVal(c) == (CHOOSE i \in 1..10 : Digits[i] = c) - 1

SetMin(S) == CHOOSE x \in S : \A y \in S : x <= y
SetMax(S) == CHOOSE x \in S : \A y \in S : x >= y

\* t[i..] starts with lit
Matches(t, i, lit) ==
    /\ i >= 1
    /\ i + Len(lit) - 1 <= Len(t)
    /\ SubSeq(t, i, i + Len(lit) - 1) = lit

\* last index of the maximal run of characters of S that starts at i (i-1: none)
RECURSIVE RunEnd(_, _, _)
RunEnd(t, i, S) ==
    IF i > Len(t) \/ t[i] \notin S THEN i - 1 ELSE RunEnd(t, i + 1, S)

\* t[lo..hi] without the positions in drop
RECURSIVE Keep(_, _, _, _)
Keep(t, drop, lo, hi) ==
    IF lo > hi THEN <<>>
    ELSE IF lo = hi THEN (IF lo \in drop THEN <<>> ELSE <<t[lo]>>)
    ELSE LET mid == (lo + hi) \div 2
         IN  Keep(t, drop, lo, mid) \o Keep(t, drop, mid + 1, hi)

(************************* fence stripping *******************************)

\* re.sub(r'^BQBQBQjson\s*\n?', '', output_str, flags=re.MULTILINE)
StripFenceOpen(t) ==
    LET starts == {i \in 1..Len(t) :
                      /\ (i = 1 \/ t[i - 1] = "\n")
                      /\ Matches(t, i, FenceOpen)}
        drop == UNION {i..RunEnd(t, i + Len(FenceOpen), ReSpace) : i \in starts}
    IN  Keep(t, drop, 1, Len(t))

\* where a match of BQBQBQ\s*$ that starts at f ends (0: no match at f): \s* is
\* greedy and $ holds at the end of the text and before every newline
FenceCloseEnd(t, f) ==
    IF ~Matches(t, f, FenceMark) THEN 0
    ELSE LET e == RunEnd(t, f + 3, ReSpace)
             nls == {j \in (f + 3)..e : t[j] = "\n"}
         IN  IF e = Len(t) THEN e
             ELSE IF nls = {} THEN 0
             ELSE SetMax(nls) - 1

\* re.sub(r'\n?BQBQBQ\s*$', '', output_str, flags=re.MULTILINE)
StripFenceClose(t) ==
    LET starts == {f \in 1..Len(t) : FenceCloseEnd(t, f) # 0}
        from(f) == IF f > 1 /\ t[f - 1] = "\n" THEN f - 1 ELSE f
        drop == UNION {from(f)..FenceCloseEnd(t, f) : f \in starts}
    IN  Keep(t, drop, 1, Len(t))

StripFences(t) == StripFenceClose(StripFenceOpen(t))

(************************* candidate search ******************************)

\* mutant: the non-greedy pattern, which stops at the first closing brace
JsonMatchNonGreedy(t) ==
    LET opens == {i \in 1..Len(t) : t[i] = "{"}
        closes == {i \in 1..Len(t) : t[i] = "}" /\ opens # {} /\ i > SetMin(opens)}
    IN  IF opens = {} \/ closes = {} THEN <<0, 0>>
        ELSE <<SetMin(opens), SetMin(closes)>>

\* re.search for an opening brace, anything, a closing brace (DOTALL, greedy):
\* <<first, last>>, or <<0, 0>> when there is no match
JsonMatch(t) ==
    LET opens == {i \in 1..Len(t) : t[i] = "{"}
        closes == {i \in 1..Len(t) : t[i] = "}"}
    IN  IF opens = {} \/ closes = {} THEN <<0, 0>>
        ELSE IF SetMax(closes) < SetMin(opens) THEN <<0, 0>>
        ELSE <<SetMin(opens), SetMax(closes)>>


(****************************** values ***********************************)

PyVal(tag) == [t |-> tag, b |-> FALSE, n |-> 0, sc |-> 0, s |-> <<>>, l |-> <<>>, d |-> <<>>]
VNull == PyVal("null")
VBool(b) == [PyVal("bool") EXCEPT !.b = b]
VInt(n) == [PyVal("int") EXCEPT !.n = n]
\* the float n / 10^sc, without trailing zeros in the fraction
RECURSIVE VFloat(_, _)
VFloat(n, sc) ==
    IF sc > 0 /\ n % 10 = 0 THEN VFloat(n \div 10, sc - 1)
    ELSE [PyVal("float") EXCEPT !.n = n, !.sc = sc]
VNaN == PyVal("nan")
VInf == PyVal("inf")
VNegInf == PyVal("ninf")
VStr(s) == [PyVal("str") EXCEPT !.s = s]
VList(l) == [PyVal("list") EXCEPT !.l = l]
VDict(d) == [PyVal("dict") EXCEPT !.d = d]

\* dict: key lookup and item assignment (a new key goes last, an old one keeps
\* its place)
DictHas(d, k) == \E i \in 1..Len(d) : d[i].k = k
DictGet(d, k) == d[CHOOSE i \in 1..Len(d) : d[i].k = k].v
DictSet(d, k, v) ==
    IF DictHas(d, k)
    THEN [i \in 1..Len(d) |-> IF d[i].k = k THEN [k |-> k, v |-> v] ELSE d[i]]
    ELSE Append(d, [k |-> k, v |-> v])
DictKeys(d) == {d[i].k : i \in 1..Len(d)}
\* dict equality does not look at the order of the keys
DictEq(d1, d2) ==
    /\ DictKeys(d1) = DictKeys(d2)
    /\ \A k \in DictKeys(d1) : DictGet(d1, k) = DictGet(d2, k)

(***************************** json.loads ********************************)

\* a decoding step: the value and the position after it, or the JSONDecodeError
\* (its message and its 0-based character position)
POk(v, pos) == [ok |-> TRUE, v |-> v, pos |-> pos, msg |-> "", at |-> 0]
PErr(msg, at) == [ok |-> FALSE, v |-> VNull, pos |-> 0, msg |-> msg, at |-> at]

SkipWs(t, i) == RunEnd(t, i, JsonWs) + 1

\* the number the digits t[i..j] write
RECURSIVE DigitsVal(_, _, _)
DigitsVal(t, i, j) ==
    IF i > j THEN 0 ELSE DigitsVal(t, i, j - 1) * 10 + DigitVal(t[j])

Pow10(k) == IF k = 0 THEN 1 ELSE IF k = 1 THEN 10 ELSE IF k = 2 THEN 100
            ELSE IF k = 3 THEN 1000 ELSE 10000

\* NUMBER_RE at i: -?(0|[1-9]\d*)(\.\d+)? ; pos = 0 when there is no match
ScanNumber(t, i) ==
    LET neg == i <= Len(t) /\ t[i] = "-"
        i0 == IF neg THEN i + 1 ELSE i
        intEnd == IF i0 <= Len(t) /\ t[i0] = "0" THEN i0
                  ELSE RunEnd(t, i0, DigitSet)
        hasFrac == /\ intEnd + 2 <= Len(t)
                   /\ t[intEnd + 1] = "."
                   /\ t[intEnd + 2] \in DigitSet
        fracEnd == IF hasFrac THEN RunEnd(t, intEnd + 2, DigitSet) ELSE intEnd
        sign == IF neg THEN -1 ELSE 1
        ip == DigitsVal(t, i0, intEnd)
        sc == fracEnd - intEnd - 1
        fp == DigitsVal(t, intEnd + 2, fracEnd)
    IN  IF intEnd < i0 THEN PErr("no number", i - 1)
        ELSE IF hasFrac THEN POk(VFloat(sign * (ip * Pow10(sc) + fp), sc), fracEnd + 1)
        ELSE POk(VInt(sign * ip), intEnd + 1)

\* what a backslash escape stands for ("" when it is not an escape)
Unescape(c) ==
    CASE c = "\"" -> "\""
      [] c = "\\" -> "\\"
      [] c = "/" -> "/"
      [] c = "n" -> "\n"
      [] c = "t" -> "\t"
      [] c = "r" -> "\r"
      [] c = "f" -> "\f"
      [] c = "b" -> BS
      [] OTHER -> ""

\* scanstring: i is the position after the opening quote
RECURSIVE ScanChunks(_, _, _, _)
ScanChunks(t, begin, pos, acc) ==
    LET specials == {j \in pos..Len(t) : t[j] \in {"\"", "\\"} \cup ControlChars}
        j == SetMin(specials)
    IN  IF specials = {} THEN PErr("Unterminated string starting at", begin - 1)
        ELSE IF t[j] = "\"" THEN POk(VStr(acc \o SubSeq(t, pos, j - 1)), j + 1)
        ELSE IF t[j] \in ControlChars THEN PErr("Invalid control character at", j - 1)
        ELSE IF j + 1 > Len(t) THEN PErr("Unterminated string starting at", begin - 1)
        ELSE IF Unescape(t[j + 1]) = "" THEN PErr("Invalid \\escape", j - 1)
        ELSE ScanChunks(t, begin, j + 2,
                        acc \o SubSeq(t, pos, j - 1) \o <<Unescape(t[j + 1])>>)

ScanString(t, i) == ScanChunks(t, i - 1, i, <<>>)

RECURSIVE ScanOnce(_, _)
RECURSIVE ObjectMembers(_, _, _)
RECURSIVE ArrayElements(_, _, _)

\* JSONObject, at the key of the next member; d holds the members read so far
ObjectMembers(t, i, d) ==
    IF i > Len(t) \/ t[i] # "\""
    THEN PErr("Expecting property name enclosed in double quotes", i - 1)
    ELSE LET key == ScanString(t, i + 1)
             c == SkipWs(t, key.pos)
             val == ScanOnce(t, SkipWs(t, c + 1))
             e == SkipWs(t, val.pos)
         IN  IF ~key.ok THEN key
             ELSE IF c > Len(t) \/ t[c] # ":" THEN PErr("Expecting ':' delimiter", c - 1)
             ELSE IF ~val.ok THEN val
             ELSE IF e <= Len(t) /\ t[e] = "}"
                  THEN POk(VDict(DictSet(d, key.v.s, val.v)), e + 1)
             ELSE IF e > Len(t) \/ t[e] # "," THEN PErr("Expecting ',' delimiter", e - 1)
             ELSE ObjectMembers(t, SkipWs(t, e + 1), DictSet(d, key.v.s, val.v))

\* JSONArray, at the next element; l holds the elements read so far
ArrayElements(t, i, l) ==
    LET val == ScanOnce(t, i)
        e == SkipWs(t, val.pos)
    IN  IF ~val.ok THEN val
        ELSE IF e <= Len(t) /\ t[e] = "]" THEN POk(VList(Append(l, val.v)), e + 1)
        ELSE IF e > Len(t) \/ t[e] # "," THEN PErr("Expecting ',' delimiter", e - 1)
        ELSE ArrayElements(t, SkipWs(t, e + 1), Append(l, val.v))

\* scan_once: the JSON term that starts at i
ScanOnce(t, i) ==
    IF i > Len(t) THEN PErr("Expecting value", i - 1)
    ELSE IF t[i] = "\"" THEN ScanString(t, i + 1)
    ELSE IF t[i] = "{"
         THEN LET k == SkipWs(t, i + 1)
              IN  IF k <= Len(t) /\ t[k] = "}" THEN POk(VDict(<<>>), k + 1)
                  ELSE ObjectMembers(t, k, <<>>)
    ELSE IF t[i] = "["
         THEN LET k == SkipWs(t, i + 1)
              IN  IF k <= Len(t) /\ t[k] = "]" THEN POk(VList(<<>>), k + 1)
                  ELSE ArrayElements(t, k, <<>>)
    ELSE IF Matches(t, i, LitNull) THEN POk(VNull, i + 4)
    ELSE IF Matches(t, i, LitTrue) THEN POk(VBool(TRUE), i + 4)
    ELSE IF Matches(t, i, LitFalse) THEN POk(VBool(FALSE), i + 5)
    ELSE IF ScanNumber(t, i).ok THEN ScanNumber(t, i)
    ELSE IF Matches(t, i, LitNaN) THEN POk(VNaN, i + 3)
    ELSE IF Matches(t, i, LitInfinity) THEN POk(VInf, i + 8)
    ELSE IF Matches(t, i, LitNegInfinity) THEN POk(VNegInf, i + 9)
    ELSE PErr("Expecting value", i - 1)

\* json.loads(t)
JsonLoads(t) ==
    LET r == ScanOnce(t, SkipWs(t, 1))
        e == SkipWs(t, r.pos)
    IN  IF ~r.ok THEN r
        ELSE IF e # Len(t) + 1 THEN PErr("Extra data", e - 1)
        ELSE r

(**************************** JSON repair ********************************)

\* re.sub(r"'([^']*)'", r'"\1"', fixed): the single quotes pair up from the
\* left; both quotes of a pair become double quotes, an unpaired last one stays
RepairQuotes(t) ==
    LET Q == {i \in 1..Len(t) : t[i] = "'"}
        rank(p) == Cardinality({q \in Q : q <= p})
        paired(p) == rank(p) % 2 = 0 \/ rank(p) < Cardinality(Q)
    IN  [i \in 1..Len(t) |-> IF i \in Q /\ paired(i) THEN "\"" ELSE t[i]]

\* re.sub(r',\s*X', 'X', fixed) for the closing character X
RepairTrailingComma(t, closer) ==
    LET ends(i) == RunEnd(t, i + 1, ReSpace) + 1
        starts == {i \in 1..Len(t) :
                      /\ t[i] = ","
                      /\ ends(i) <= Len(t)
                      /\ t[ends(i)] = closer}
        drop == UNION {i..(ends(i) - 1) : i \in starts}
    IN  Keep(t, drop, 1, Len(t))

\* the three substitutions of the except branch, in the code's order
RepairJson(t) ==
    RepairTrailingComma(RepairTrailingComma(RepairQuotes(t), "}"), "]")

(************************ Python conversions *****************************)

\* bool(v)
PyBool(v) ==
    CASE v.t = "null" -> FALSE
      [] v.t = "bool" -> v.b
      [] v.t \in {"int", "float"} -> v.n # 0
      [] v.t \in {"nan", "inf", "ninf"} -> TRUE
      [] v.t = "str" -> v.s # <<>>
      [] v.t = "list" -> v.l # <<>>
      [] v.t = "dict" -> v.d # <<>>

Lower(c) ==
    CASE c = "N" -> "n" [] c = "A" -> "a" [] c = "I" -> "i" [] c = "F" -> "f"
      [] c = "T" -> "t" [] c = "Y" -> "y" [] OTHER -> c

\* float(s) for a str: surrounding whitespace is dropped; a sign, then nan, inf,
\* infinity (any case) or a decimal numeral with digits on at least one side
\* of the point
FloatOfStr(s) ==
    LET lead == RunEnd(s, 1, ReSpace) + 1
        trailSet == {j \in lead..Len(s) : \A k \in j..Len(s) : s[k] \in ReSpace}
        last == IF trailSet = {} THEN Len(s) ELSE SetMin(trailSet) - 1
        neg == lead <= last /\ s[lead] = "-"
        i0 == IF lead <= last /\ s[lead] \in {"-", "+"} THEN lead + 1 ELSE lead
        body == SubSeq(s, i0, last)
        word == [i \in 1..Len(body) |-> Lower(body[i])]
        intEnd == RunEnd(body, 1, DigitSet)
        hasPoint == intEnd + 1 <= Len(body) /\ body[intEnd + 1] = "."
        fracEnd == IF hasPoint THEN RunEnd(body, intEnd + 2, DigitSet) ELSE intEnd
        sc == IF hasPoint THEN fracEnd - intEnd - 1 ELSE 0
        mag == DigitsVal(body, 1, intEnd) * Pow10(sc)
                 + (IF hasPoint THEN DigitsVal(body, intEnd + 2, fracEnd) ELSE 0)
    IN  IF word = PyNan THEN [ok |-> TRUE, v |-> VNaN]
        ELSE IF word \in {PyInf, <<"i", "n", "f", "i", "n", "i", "t", "y">>}
             THEN [ok |-> TRUE, v |-> IF neg THEN VNegInf ELSE VInf]
        ELSE IF fracEnd = Len(body) /\ (intEnd >= 1 \/ sc >= 1)
             THEN [ok |-> TRUE, v |-> VFloat(IF neg THEN -mag ELSE mag, sc)]
        ELSE [ok |-> FALSE, v |-> VNull]

\* float(v): ok = FALSE stands for the ValueError or TypeError
PyFloat(v) ==
    CASE v.t = "int" -> [ok |-> TRUE, v |-> VFloat(v.n, 0)]
      [] v.t = "bool" -> [ok |-> TRUE, v |-> VFloat(IF v.b THEN 1 ELSE 0, 0)]
      [] v.t \in {"float", "nan", "inf", "ninf"} -> [ok |-> TRUE, v |-> v]
      [] v.t = "str" -> FloatOfStr(v.s)
      [] OTHER -> [ok |-> FALSE, v |-> VNull]

\* a < b on floats (every comparison with nan is false)
FloatLess(a, b) ==
    CASE a.t = "nan" \/ b.t = "nan" -> FALSE
      [] a.t = "inf" \/ b.t = "ninf" -> FALSE
      [] a.t = "ninf" \/ b.t = "inf" -> TRUE
      [] OTHER -> a.n * Pow10(b.sc) < b.n * Pow10(a.sc)

\* min(a, b) and max(a, b) of Python: the first argument unless the second is
\* strictly smaller (greater)
PyMin(a, b) == IF FloatLess(b, a) THEN b ELSE a
PyMax(a, b) == IF FloatLess(a, b) THEN b ELSE a

\* the decimal digits of n >= 0
RECURSIVE NatStr(_)
NatStr(n) == IF n < 10 THEN <<Digits[n + 1]>> ELSE NatStr(n \div 10) \o <<Digits[(n % 10) + 1]>>
IntStr(n) == IF n < 0 THEN <<"-">> \o NatStr(-n) ELSE NatStr(n)

\* repr of a finite float n / 10^sc
FloatRepr(v) ==
    LET mag == IF v.n < 0 THEN -v.n ELSE v.n
        ip == NatStr(mag \div Pow10(v.sc))
        fdigits == NatStr(mag % Pow10(v.sc))
        fp == IF v.sc = 0 THEN <<"0">>
              ELSE [i \in 1..(v.sc - Len(fdigits)) |-> "0"] \o fdigits
    IN  (IF v.n < 0 THEN <<"-">> ELSE <<>>) \o ip \o <<".">> \o fp

\* one character of a str inside repr's quotes q
ReprChar(c, q) ==
    CASE c = "\\" -> <<"\\", "\\">>
      [] c = q -> <<"\\", q>>
      [] c = "\n" -> <<"\\", "n">>
      [] c = "\t" -> <<"\\", "t">>
      [] c = "\r" -> <<"\\", "r">>
      [] c = "\f" -> <<"\\", "x", "0", "c">>
      [] c = BS -> <<"\\", "x", "0", "8">>
      [] OTHER -> <<c>>

RECURSIVE ReprChars(_, _, _, _)
ReprChars(s, lo, hi, q) ==
    IF lo > hi THEN <<>>
    ELSE IF lo = hi THEN ReprChar(s[lo], q)
    ELSE LET mid == (lo + hi) \div 2
         IN  ReprChars(s, lo, mid, q) \o ReprChars(s, mid + 1, hi, q)

\* repr of a str: double quotes only when it holds a single and no double quote
StrRepr(s) ==
    LET chars == {s[i] : i \in 1..Len(s)}
        q == IF "'" \in chars /\ "\"" \notin chars THEN "\"" ELSE "'"
    IN  <<q>> \o ReprChars(s, 1, Len(s), q) \o <<q>>

RECURSIVE PyRepr(_)
RECURSIVE JoinRepr(_, _)
RECURSIVE JoinItems(_, _)
\* ", ".join(repr(x) for x in l), from element i on
JoinRepr(l, i) ==
    IF i > Len(l) THEN <<>>
    ELSE PyRepr(l[i]) \o (IF i < Len(l) THEN <<",", " ">> ELSE <<>>) \o JoinRepr(l, i + 1)
JoinItems(d, i) ==
    IF i > Len(d) THEN <<>>
    ELSE StrRepr(d[i].k) \o <<":", " ">> \o PyRepr(d[i].v)
           \o (IF i < Len(d) THEN <<",", " ">> ELSE <<>>) \o JoinItems(d, i + 1)

\* repr(v)
PyRepr(v) ==
    CASE v.t = "null" -> PyNone
      [] v.t = "bool" -> (IF v.b THEN PyTrue ELSE PyFalse)
      [] v.t = "int" -> IntStr(v.n)
      [] v.t = "float" -> FloatRepr(v)
      [] v.t = "nan" -> PyNan
      [] v.t = "inf" -> PyInf
      [] v.t = "ninf" -> PyNegInf
      [] v.t = "str" -> StrRepr(v.s)
      [] v.t = "list" -> <<"[">> \o JoinRepr(v.l, 1) \o <<"]">>
      [] v.t = "dict" -> <<"{">> \o JoinItems(v.d, 1) \o <<"}">>

\* str(v)
PyStr(v) == IF v.t = "str" THEN v.s ELSE PyRepr(v)

(***************************** json.dumps ********************************)

\* one character of a str inside a JSON string (ensure_ascii, ASCII input)
JsonChar(c) ==
    CASE c = "\"" -> <<"\\", "\"">>
      [] c = "\\" -> <<"\\", "\\">>
      [] c = "\n" -> <<"\\", "n">>
      [] c = "\t" -> <<"\\", "t">>
      [] c = "\r" -> <<"\\", "r">>
      [] c = "\f" -> <<"\\", "f">>
      [] c = BS -> <<"\\", "b">>
      [] OTHER -> <<c>>

RECURSIVE JsonChars(_, _, _)
JsonChars(s, lo, hi) ==
    IF lo > hi THEN <<>>
    ELSE IF lo = hi THEN JsonChar(s[lo])
    ELSE LET mid == (lo + hi) \div 2
         IN  JsonChars(s, lo, mid) \o JsonChars(s, mid + 1, hi)

JsonString(s) == <<"\"">> \o JsonChars(s, 1, Len(s)) \o <<"\"">>

RECURSIVE JsonDumps(_)
RECURSIVE DumpElements(_, _)
RECURSIVE DumpMembers(_, _)
DumpElements(l, i) ==
    IF i > Len(l) THEN <<>>
    ELSE JsonDumps(l[i]) \o (IF i < Len(l) THEN <<",", " ">> ELSE <<>>)
           \o DumpElements(l, i + 1)
DumpMembers(d, i) ==
    IF i > Len(d) THEN <<>>
    ELSE JsonString(d[i].k) \o <<":", " ">> \o JsonDumps(d[i].v)
           \o (IF i < Len(d) THEN <<",", " ">> ELSE <<>>) \o DumpMembers(d, i + 1)

\* json.dumps(v) with the default separators
JsonDumps(v) ==
    CASE v.t = "null" -> LitNull
      [] v.t = "bool" -> (IF v.b THEN LitTrue ELSE LitFalse)
      [] v.t = "int" -> IntStr(v.n)
      [] v.t = "float" -> FloatRepr(v)
      [] v.t = "nan" -> LitNaN
      [] v.t = "inf" -> LitInfinity
      [] v.t = "ninf" -> LitNegInfinity
      [] v.t = "str" -> JsonString(v.s)
      [] v.t = "list" -> <<"[">> \o DumpElements(v.l, 1) \o <<"]">>
      [] v.t = "dict" -> <<"{">> \o DumpMembers(v.d, 1) \o <<"}">>

(*************************** validate_output *****************************)

MaxReasonLen == 200
ReasonKeep == 197

\* data.get(k, default)
DictGetOr(d, k, default) == IF DictHas(d, k) THEN DictGet(d, k) ELSE default

\* mutant: the strings "false" and "" both read as false
CoerceResponsiveParsed(v) == VBool(IF v = VStr(LitFalse) THEN FALSE ELSE PyBool(v))

\* data["responsive"] = bool(data["responsive"])
CoerceResponsive(v) == VBool(PyBool(v))

\* mutant: only the lower bound is applied
ClampConfidenceNoUpper(v) ==
    LET f == PyFloat(v)
    IN  IF f.ok THEN PyMax(VFloat(0, 0), f.v) ELSE VFloat(5, 1)

\* float(confidence), then max(0.0, min(1.0, confidence)); 0.5 on ValueError
\* or TypeError
ClampConfidence(v) ==
    LET f == PyFloat(v)
    IN  IF f.ok THEN PyMax(VFloat(0, 0), PyMin(VFloat(1, 0), f.v))
        ELSE VFloat(5, 1)

\* mutant: reason[:200], without the ellipsis
TruncateReasonCut(s) == IF Len(s) > MaxReasonLen THEN SubSeq(s, 1, MaxReasonLen) ELSE s

\* reason[:197] + "..." when len(reason) > 200
TruncateReason(s) ==
    IF Len(s) > MaxReasonLen THEN SubSeq(s, 1, ReasonKeep) \o Ellipsis ELSE s

\* mutant: a non-list is always wrapped, also when it is falsy
CoerceLabelsAlwaysWrap(v) ==
    LET l == IF v.t = "list" THEN v.l ELSE <<v>>
    IN  VList([i \in 1..Len(l) |-> VStr(PyStr(l[i]))])

\* mutant: repr instead of str for the elements
CoerceLabelsRepr(v) ==
    LET l == IF v.t = "list" THEN v.l ELSE IF PyBool(v) THEN <<v>> ELSE <<>>
    IN  VList([i \in 1..Len(l) |-> VStr(PyRepr(l[i]))])

\* a non-list becomes [labels] if labels else []; every element goes through str
CoerceLabels(v) ==
    LET l == IF v.t = "list" THEN v.l ELSE IF PyBool(v) THEN <<v>> ELSE <<>>
    IN  VList([i \in 1..Len(l) |-> VStr(PyStr(l[i]))])

\* data["responsive"] = bool(data["responsive"])
SetResponsive(d) == DictSet(d, K_responsive, CoerceResponsive(DictGet(d, K_responsive)))
\* data["confidence"] = the clamped data.get("confidence", 0.5)
SetConfidence(d) ==
    DictSet(d, K_confidence, ClampConfidence(DictGetOr(d, K_confidence, VFloat(5, 1))))
\* data["reason"] = the truncated str(data.get("reason", "No reason provided"))
SetReason(d) ==
    DictSet(d, K_reason,
            VStr(TruncateReason(PyStr(DictGetOr(d, K_reason, VStr(NoReasonProvided))))))
\* data["labels"] = the list of strings of data.get("labels", [])
SetLabels(d) == DictSet(d, K_labels, CoerceLabels(DictGetOr(d, K_labels, VList(<<>>))))

\* the field validation of a parsed object, in the code's order
ValidateFields(d) == SetLabels(SetReason(SetConfidence(SetResponsive(d))))

NoError == [msg |-> "", at |-> 0]

\* what a call of validate_output ends with: kind "ok" (data is the returned
\* dict) or the ValueError raised; loads counts the json.loads calls made and
\* parsed is the text the successful one read
VResult(kind, data, err, loads, parsed) ==
    [kind |-> kind, data |-> data, err |-> err, loads |-> loads, parsed |-> parsed]

NoResult == VResult("none", <<>>, NoError, 0, <<>>)

\* after a successful json.loads: the required key, then the fields
FieldsOrMissing(p) ==
    IF ~DictHas(p.d, K_responsive)
    THEN VResult("MissingField", <<>>, NoError, p.loads, p.parsed)
    ELSE VResult("ok", ValidateFields(p.d), NoError, p.loads, p.parsed)

\* mutant: the ValueError carries the error of the second parse
ParseRepairedSecondError(first, fixed, second) ==
    IF second.ok
    THEN [ok |-> TRUE, d |-> second.v.d, loads |-> 2, parsed |-> fixed, err |-> NoError]
    ELSE [ok |-> FALSE, d |-> <<>>, loads |-> 2, parsed |-> <<>>,
          err |-> [msg |-> second.msg, at |-> second.at]]

\* the except branch: the repaired text is parsed; when that fails too, the
\* ValueError carries the first error
ParseRepaired(first, fixed, second) ==
    IF second.ok
    THEN [ok |-> TRUE, d |-> second.v.d, loads |-> 2, parsed |-> fixed, err |-> NoError]
    ELSE [ok |-> FALSE, d |-> <<>>, loads |-> 2, parsed |-> <<>>,
          err |-> [msg |-> first.msg, at |-> first.at]]

RepairAndParse(first, fixed) == ParseRepaired(first, fixed, JsonLoads(fixed))

\* the try block: json.loads of the candidate, the repair only when it raises
ParseStrict(cand, first) ==
    IF first.ok
    THEN [ok |-> TRUE, d |-> first.v.d, loads |-> 1, parsed |-> cand, err |-> NoError]
    ELSE RepairAndParse(first, RepairJson(cand))

ParseCandidate(cand) == ParseStrict(cand, JsonLoads(cand))

AfterParse(p) ==
    IF p.ok THEN FieldsOrMissing(p)
    ELSE VResult("CannotParse", <<>>, p.err, p.loads, <<>>)

AfterSearch(stripped, m) ==
    IF m = <<0, 0>> THEN VResult("NoJsonFound", <<>>, NoError, 0, <<>>)
    ELSE AfterParse(ParseCandidate(SubSeq(stripped, m[1], m[2])))

AfterStrip(stripped) == AfterSearch(stripped, JsonMatch(stripped))

ValidateOutput(text) == AfterStrip(StripFences(text))

(************************ the validator's inputs *************************)

\* how far past MaxReasonLen the longest drawn reason goes
ReasonOverflow == 50

Absent == PyVal("absent")
Txt(n) == [i \in 1..n |-> Digits[(i % 10) + 1]]
Member(k, v) == [k |-> k, v |-> v]
K_extra == <<"n", "o", "t", "e">>

\* the object with the given members; Absent leaves the key out
MkObject(r, c, rs, l, x) ==
    SelectSeq(<<Member(K_responsive, r), Member(K_confidence, c), Member(K_reason, rs),
                Member(K_labels, l), Member(K_extra, x)>>,
              LAMBDA m : m.v.t # "absent")

ResponsiveWide ==
    {Absent, VBool(TRUE), VBool(FALSE), VInt(0), VInt(1), VNull, VStr(<<>>),
     VStr(LitFalse), VList(<<>>), VList(<<VInt(0)>>), VDict(<<>>),
     VDict(<<Member(<<"k">>, VInt(1))>>), VFloat(0, 0), VFloat(25, 1), VNaN}
ConfidenceWide ==
    {Absent, VFloat(5, 1), VFloat(8, 1), VFloat(15, 1), VInt(-3), VInt(0), VInt(1),
     VInt(2), VFloat(85, 2), VFloat(-1, 2), VNull, VList(<<VFloat(8, 1)>>),
     VDict(<<>>), VStr(<<"h", "i", "g", "h">>), VStr(<<"0", ".", "7">>),
     VStr(<<" ", "3", " ">>), VStr(<<>>), VStr(PyNan), VStr(PyNegInf),
     VBool(TRUE), VBool(FALSE), VNaN, VInf, VNegInf}
ReasonWide ==
    {Absent, VStr(<<"o", "k">>), VStr(<<>>), VNull, VInt(5), VBool(TRUE),
     VList(<<VStr(<<"a">>)>>), VStr(<<"i", "t", "'", "s">>),
     VStr(<<"a", "\"", "b", "\\", "c", "\n", "}">>),
     VStr(Txt(MaxReasonLen - 1)), VStr(Txt(MaxReasonLen)), VStr(Txt(MaxReasonLen + 1)),
     VStr(Txt(MaxReasonLen + ReasonOverflow)),
     VList([i \in 1..ReasonOverflow |-> VInt(i)])}
LabelsWide ==
    {Absent, VList(<<>>), VList(<<VStr(<<"a">>)>>),
     VList(<<VStr(<<"b">>), VStr(<<"a">>)>>),
     VList(<<VInt(1), VBool(TRUE), VNull, VFloat(15, 1), VList(<<VStr(<<"a">>)>>)>>),
     VStr(<<"s", "i", "n", "g", "l", "e">>), VStr(<<>>), VInt(0), VInt(7), VNull,
     VBool(FALSE), VBool(TRUE), VDict(<<>>), VDict(<<Member(<<"k">>, VInt(1))>>),
     VFloat(0, 0)}
ExtraWide == {Absent, VInt(1), VStr(<<"x">>), VList(<<VNull>>)}

ResponsiveCore == {Absent, VBool(TRUE), VInt(0), VStr(LitFalse)}
ConfidenceCore == {Absent, VFloat(8, 1), VFloat(15, 1), VStr(<<"h", "i", "g", "h">>)}
ReasonCore == {Absent, VStr(<<"o", "k">>), VStr(<<"i", "t", "'", "s">>)}
LabelsCore == {Absent, VList(<<VStr(<<"a">>)>>), VStr(<<"s", "i", "n", "g", "l", "e">>)}
ExtraCore == {Absent, VInt(1)}

\* every combination of the core values, and every wide value of one field in
\* an otherwise plain object
Objects ==
    {MkObject(r, c, rs, l, x) : r \in ResponsiveCore, c \in ConfidenceCore,
                                rs \in ReasonCore, l \in LabelsCore, x \in ExtraCore}
    \cup {MkObject(r, VFloat(8, 1), VStr(<<"o", "k">>), VList(<<>>), x) :
              r \in ResponsiveWide, x \in ExtraCore}
    \cup {MkObject(VBool(TRUE), c, Absent, Absent, x) :
              c \in ConfidenceWide, x \in ExtraCore}
    \cup {MkObject(VBool(TRUE), VFloat(5, 1), rs, l, Absent) :
              rs \in ReasonWide, l \in LabelsCore}
    \cup {MkObject(VInt(1), VFloat(15, 1), rs, l, x) :
              rs \in ReasonCore, l \in LabelsWide, x \in ExtraWide}

\* the shapes a model gives its answer
SingleQuoted(t) == [i \in 1..Len(t) |-> IF t[i] = "\"" THEN "'" ELSE t[i]]
TrailingComma(t) == SubSeq(t, 1, Len(t) - 1) \o <<",", " ", "}">>
Fenced(t) == FenceOpen \o <<"\n">> \o t \o <<"\n">> \o FenceMark
PlainFenced(t) == <<"O", "K", ":", "\n">> \o FenceMark \o <<"\n">> \o t
                    \o <<"\n">> \o FenceMark \o <<" ", "\n">>
InProse(t) == <<"A", ":", " ">> \o t \o <<" ", "o", "k", "?">>

ShortObjects == {o \in Objects : Len(JsonDumps(VDict(o))) <= MaxReasonLen}

FixedResponses ==
    {<<>>,
     <<"n", "o", " ", "J", "S", "O", "N">>,
     <<"}", " ", "{">>,
     <<"{">>,
     <<"a", "}", "b">>,
     <<"{", "}">>,
     <<"{", "t", "h", "i", "s", " ", "i", "s", " ", "n", "o", "t", ":", " ",
       "v", "a", "l", "i", "d", "}">>,
     <<"{", "\"", "a", "\"", ":", " ", "[", "1", ",", " ", "]", ",", "}">>,
     <<"{", "'", "a", "\"", ":", " ", "1", "}", "'">>,
     <<"{", "\"", "a", "\"", ":", " ", "1", "}", " ", "{", "\"", "b", "\"", "}">>}

Responses ==
    {JsonDumps(VDict(o)) : o \in Objects}
    \cup {SingleQuoted(JsonDumps(VDict(o))) : o \in ShortObjects}
    \cup {TrailingComma(JsonDumps(VDict(o))) : o \in ShortObjects}
    \cup {Fenced(JsonDumps(VDict(o))) : o \in ShortObjects}
    \cup {PlainFenced(SingleQuoted(JsonDumps(VDict(o)))) : o \in ShortObjects}
    \cup {InProse(TrailingComma(JsonDumps(VDict(o)))) : o \in ShortObjects}
    \cup FixedResponses

(********************** the validator as a machine ***********************)

\* no PromptBuilder was constructed yet
NoBuilder ==
    [version |-> VNull, system_prompt |-> VNull, examples |-> VNull,
     output_schema |-> VNull]

\* OllamaClient.__init__: nothing cached (None: the empty tuple, a value v:
\* <<v>>); with it the clock in minutes, the time of the last successful
\* fetch and whether clear_cache was called since
NewClient ==
    [model_cache |-> <<>>, cache_timestamp |-> <<>>,
     now |-> 0, fetched_at |-> <<>>, cleared |-> FALSE]

\* no crud or client function was called yet, no worker runs
NoCall ==
    /\ call = [op |-> "none"]
    /\ ret = "None"
    /\ wpc = <<>>
    /\ wemail = <<>>
    /\ ollama = NewClient
    /\ builder = NoBuilder
    /\ reviews = <<>>
    /\ items = <<>>

RunsIdle ==
    /\ runs = <<>>
    /\ classifications = <<>>
    /\ emails = {}
    /\ opc = "idle"
    /\ orun = 0
    /\ gateway = <<>>
    /\ NoCall

InitValidate ==
    /\ output_str \in Responses
    /\ vres = NoResult
    /\ vres2 = NoResult
    /\ vpc = "start"
    /\ RunsIdle

\* result = prompt_builder.validate_output(output)
Validate ==
    /\ vpc = "start"
    /\ vres' = ValidateOutput(output_str)
    /\ vpc' = "validated"
    /\ UNCHANGED <<output_str, vres2, rvars, xvars>>

\* the returned verdict, serialized and validated again
Revalidate ==
    /\ vpc = "validated"
    /\ vres.kind = "ok"
    /\ vres2' = ValidateOutput(JsonDumps(VDict(vres.data)))
    /\ vpc' = "revalidated"
    /\ UNCHANGED <<output_str, vres, rvars, xvars>>

NextValidate == Validate \/ Revalidate

SpecValidate == InitValidate /\ [][NextValidate]_vars

(*********************** claims on validate_output ***********************)

HasVerdict == vpc # "start" /\ vres.kind = "ok"
\* the JSON object the verdict was made from
SourceObject == JsonLoads(vres.parsed).v.d
Zero == VFloat(0, 0)
One == VFloat(1, 0)
Half == VFloat(5, 1)

\* C1: the verdict's confidence is 0.5 when the key is absent or its value is
\* no number, otherwise the number clamped into [0.0, 1.0]; it always lies
\* within [0.0, 1.0].
C1_ConfidenceClamped ==
    HasVerdict =>
        LET conf == DictGet(vres.data, K_confidence)
            has == DictHas(SourceObject, K_confidence)
            raw == DictGet(SourceObject, K_confidence)
            x == PyFloat(raw).v
        IN  /\ conf.t = "float"
            /\ ~FloatLess(conf, Zero)
            /\ ~FloatLess(One, conf)
            /\ ~has => conf = Half
            /\ (has /\ raw.t \in {"null", "list", "dict"}) => conf = Half
            /\ (has /\ ~PyFloat(raw).ok) => conf = Half
            /\ (has /\ PyFloat(raw).ok) =>
                   /\ FloatLess(One, x) => conf = One
                   /\ FloatLess(x, Zero) => conf = Zero
                   /\ (x.t = "float" /\ ~FloatLess(One, x) /\ ~FloatLess(x, Zero)) => conf = x

C1_Witness ==
    /\ HasVerdict
    /\ DictHas(SourceObject, K_confidence)
    /\ DictGet(SourceObject, K_confidence) = VFloat(15, 1)
    /\ DictGet(vres.data, K_confidence) = One

\* the reason the source object asks for, as a string
SourceReason ==
    IF DictHas(SourceObject, K_reason) THEN PyStr(DictGet(SourceObject, K_reason))
    ELSE NoReasonProvided

\* C2: the verdict's reason has at most 200 characters: a source reason of at
\* most 200 characters unchanged, a longer one as its first 197 characters plus
\* "..."; "No reason provided" when the key is absent; a long reason is no error.
C2_ReasonTruncated ==
    /\ HasVerdict =>
           LET reason == DictGet(vres.data, K_reason)
           IN  /\ reason.t = "str"
               /\ Len(reason.s) <= 200
               /\ Len(SourceReason) <= 200 => reason.s = SourceReason
               /\ Len(SourceReason) > 200 =>
                      /\ Len(reason.s) = 200
                      /\ SubSeq(reason.s, 1, 197) = SubSeq(SourceReason, 1, 197)
                      /\ SubSeq(reason.s, 198, 200) = <<".", ".", ".">>
               /\ ~DictHas(SourceObject, K_reason) => reason.s = NoReasonProvided
    /\ (vpc # "start" /\ vres.parsed # <<>> /\ DictHas(SourceObject, K_responsive))
           => vres.kind = "ok"

C2_Witness ==
    /\ HasVerdict
    /\ Len(SourceReason) = 250
    /\ Len(DictGet(vres.data, K_reason).s) = 200

\* the values the claim lists as giving false
ListedFalse(v) ==
    \/ v = VBool(FALSE)
    \/ (v.t \in {"int", "float"} /\ v.n = 0)
    \/ v = VNull
    \/ v = VStr(<<>>)
    \/ v = VList(<<>>)

MissingFieldWhenNoKey ==
    (vpc # "start" /\ vres.parsed # <<>> /\ ~DictHas(SourceObject, K_responsive))
        => vres.kind = "MissingField"

\* C3 as stated: without the key the missing-field error; with it responsive
\* is false for false, 0, null, "" and [] and true for every other value.
C3_Original ==
    /\ MissingFieldWhenNoKey
    /\ HasVerdict =>
           DictGet(vres.data, K_responsive)
               = VBool(~ListedFalse(DictGet(SourceObject, K_responsive)))

\* C3 amended: the empty object gives false too.
C3_ResponsiveTruthy ==
    /\ MissingFieldWhenNoKey
    /\ HasVerdict =>
           LET raw == DictGet(SourceObject, K_responsive)
           IN  DictGet(vres.data, K_responsive)
                   = VBool(~(ListedFalse(raw) \/ raw = VDict(<<>>)))

C3_Witness ==
    /\ HasVerdict
    /\ DictGet(SourceObject, K_responsive) = VStr(LitFalse)
    /\ DictGet(vres.data, K_responsive) = VBool(TRUE)

\* the candidate of the response: from the first "{" to the last "}" of the
\* text without its fences (<<>> when no "{" has a "}" after it)
HasSpan(t) == \E i \in 1..Len(t) : \E j \in (i + 1)..Len(t) : t[i] = "{" /\ t[j] = "}"
SpanOf(t) ==
    IF ~HasSpan(t) THEN <<>>
    ELSE SubSeq(t, CHOOSE i \in 1..Len(t) : t[i] = "{" /\ \A k \in 1..(i - 1) : t[k] # "{",
                   CHOOSE j \in 1..Len(t) : t[j] = "}" /\ \A k \in (j + 1)..Len(t) : t[k] # "}")
Candidate == SpanOf(StripFences(output_str))

\* {'responsive': true, 'confidence': 0.8}
SingleQuotedExample ==
    <<"{", "'">> \o K_responsive \o <<"'", ":", " ">> \o LitTrue \o <<",", " ", "'">>
        \o K_confidence \o <<"'", ":", " ", "0", ".", "8", "}">>

ExampleVerdict(d) ==
    /\ DictKeys(d) = {K_responsive, K_confidence, K_reason, K_labels}
    /\ DictGet(d, K_responsive) = VBool(TRUE)
    /\ DictGet(d, K_confidence) = VFloat(8, 1)
    /\ DictGet(d, K_reason) = VStr(NoReasonProvided)
    /\ DictGet(d, K_labels) = VList(<<>>)

\* C4: the candidate is parsed strictly first and rewritten only when that
\* fails, once; a candidate that parses strictly is read as it is; when the
\* rewritten text does not parse either, the cannot-parse error carries the
\* error of the strict parse; the single-quoted example is repaired.
C4_RepairOnlyAfterStrictFailure ==
    (vpc # "start" /\ Candidate # <<>>) =>
        LET strict == JsonLoads(Candidate)
            again == JsonLoads(RepairJson(Candidate))
        IN  /\ strict.ok => (vres.loads = 1 /\ vres.parsed = Candidate)
            /\ ~strict.ok => vres.loads = 2
            /\ (~strict.ok /\ again.ok) =>
                   /\ vres.kind \in {"ok", "MissingField"}
                   /\ vres.parsed = RepairJson(Candidate)
                   /\ \A i \in 1..Len(vres.parsed) :
                          vres.parsed[i] = "'" => \A k \in 1..Len(vres.parsed) :
                                                      k # i => vres.parsed[k] # "'"
            /\ (~strict.ok /\ ~again.ok) =>
                   /\ vres.kind = "CannotParse"
                   /\ vres.err = [msg |-> strict.msg, at |-> strict.at]
            /\ output_str = SingleQuotedExample =>
                   (vres.kind = "ok" /\ vres.loads = 2 /\ ExampleVerdict(vres.data))

C4_Witness ==
    /\ vpc # "start"
    /\ output_str = SingleQuotedExample
    /\ vres.kind = "ok"
    /\ vres.loads = 2

\* a response whose strict and repaired parse fail with different errors
C4_WitnessFirstError ==
    /\ vpc # "start"
    /\ vres.kind = "CannotParse"
    /\ JsonLoads(RepairJson(Candidate)).at # vres.err.at

\* C5: the no-JSON-found error is raised exactly when no "{" of the text has a
\* "}" after it; it is raised before any parse attempt; otherwise the text
\* parsed is the span from the first "{" to the last "}".
C5_NoJsonFoundIffNoSpan ==
    vpc # "start" =>
        /\ vres.kind = "NoJsonFound" <=> ~HasSpan(StripFences(output_str))
        /\ HasSpan(output_str) <=> HasSpan(StripFences(output_str))
        /\ ~HasSpan(StripFences(output_str)) =>
               (vres.loads = 0 /\ vres.kind \notin {"CannotParse", "MissingField"})
        /\ (HasSpan(StripFences(output_str)) /\ vres.loads = 1) => vres.parsed = Candidate

C5_Witness ==
    /\ vpc # "start"
    /\ vres.kind = "NoJsonFound"
    /\ \E i \in 1..Len(output_str) : output_str[i] = "{"
    /\ \E i \in 1..Len(output_str) : output_str[i] = "}"

\* C6: labels is a list of strings: [] when the key is absent; the string forms
\* of the elements, in order, for a list; for another value [] when it is falsy
\* and the one-element list of its string form otherwise.
C6_LabelsListOfStrings ==
    HasVerdict =>
        LET out == DictGet(vres.data, K_labels)
            has == DictHas(SourceObject, K_labels)
            raw == DictGet(SourceObject, K_labels)
        IN  /\ out.t = "list"
            /\ \A i \in 1..Len(out.l) : out.l[i].t = "str"
            /\ ~has => out.l = <<>>
            /\ (has /\ raw.t = "list") =>
                   /\ Len(out.l) = Len(raw.l)
                   /\ \A i \in 1..Len(raw.l) : out.l[i].s = PyStr(raw.l[i])
            /\ (has /\ raw.t # "list") =>
                   out.l = IF raw \in {VNull, VInt(0), VFloat(0, 0), VBool(FALSE),
                                       VStr(<<>>), VDict(<<>>)}
                           THEN <<>> ELSE <<VStr(PyStr(raw))>>

C6_Witness ==
    /\ HasVerdict
    /\ DictHas(SourceObject, K_labels)
    /\ DictGet(SourceObject, K_labels) = VStr(<<"s", "i", "n", "g", "l", "e">>)
    /\ DictGet(vres.data, K_labels) = VList(<<VStr(<<"s", "i", "n", "g", "l", "e">>)>>)

\* C7: the verdict holds exactly the four fields responsive, confidence, reason
\* and labels, and no other key of the model's object.
C7_OnlyFourFields ==
    HasVerdict => DictKeys(vres.data) = {K_responsive, K_confidence, K_reason, K_labels}

\* C8: json.dumps of a verdict, validated again, gives the same verdict.
C8_Idempotent ==
    vpc = "revalidated" => (vres2.kind = "ok" /\ DictEq(vres2.data, vres.data))

C8_Witness ==
    /\ vpc = "revalidated"
    /\ vres2.kind = "ok"
    /\ Len(SourceReason) > 200
    /\ Len(DictGet(vres2.data, K_reason).s) = 200
    /\ SubSeq(DictGet(vres2.data, K_reason).s, 198, 200) = Ellipsis

(************************* the stored rows (db) **************************)

\* how many Email rows a project holds at most
MaxEmails == 5
\* how many ClassificationRun rows are created at most
MaxRuns == 2
\* how many Classification rows callers outside a run store at most
MaxClassifications == 2

\* the Email columns a run reads
Email(id, project_id) == [id |-> id, project_id |-> project_id]

\* the status column's values, as its comment lists them
RunStatuses == {"pending", "running", "completed", "cancelled", "failed"}

\* Classification.status, as its comment lists the values
ClassificationStatuses == {"pending", "completed", "failed"}

\* ClassificationRun(run_id=..., project_id=...): the other columns at their defaults
ClassificationRun(run_id, project_id) ==
    [run_id |-> run_id, project_id |-> project_id, status |-> "pending",
     total_count |-> 0, completed_count |-> 0, failed_count |-> 0,
     completed_at |-> "None"]

\* str(uuid4()): an id no stored run has; here the number of the new row
NewRunId(rs) == Len(rs) + 1

\* create_classification_run: the new row is added as constructed
CreateClassificationRun(rs, project_id) ==
    Append(rs, ClassificationRun(NewRunId(rs), project_id))

\* get_classification_run: the rows with that run_id (run_id is unique: none or one)
GetClassificationRun(rs, run_id) == {i \in DOMAIN rs : rs[i].run_id = run_id}

\* for key, value in kwargs.items(): setattr(run, key, value)
SetAttrs(row, kwargs) ==
    [f \in DOMAIN row |-> IF f \in DOMAIN kwargs THEN kwargs[f] ELSE row[f]]

\* update_classification_run: no row, nothing changes (returns None); else
\* every keyword is set on the row, whatever the row holds
UpdateClassificationRun(rs, run_id, kwargs) ==
    [i \in DOMAIN rs |->
        IF i \in GetClassificationRun(rs, run_id) THEN SetAttrs(rs[i], kwargs) ELSE rs[i]]

\* the length reason is cut to on storage
ReasonColumnLen == 200

\* create_classification: labels go through json.dumps, reason through [:200];
\* error_message is no parameter and stays None
CreateClassification(cs, email_id, run_id, responsive_pred, confidence, labels, reason, status) ==
    Append(cs, [id |-> Len(cs) + 1, email_id |-> email_id, run_id |-> run_id,
                responsive_pred |-> responsive_pred, confidence |-> confidence,
                labels_json |-> JsonDumps(labels),
                reason |-> SubSeq(reason, 1, IF Len(reason) < ReasonColumnLen
                                             THEN Len(reason) ELSE ReasonColumnLen),
                status |-> status, error_message |-> "None"])

\* list_classifications_by_run: the rows of the run, of one status when one is
\* given ("" stands for None)
ListClassificationsByRun(cs, run_id, status) ==
    {i \in DOMAIN cs : cs[i].run_id = run_id /\ (status # "" => cs[i].status = status)}

\* count_classifications_by_status with the run filter left out
CountClassificationsAnyRun(cs, run_id) ==
    [st \in ClassificationStatuses |->
        Cardinality({i \in DOMAIN cs : cs[i].status = st})]

\* count_classifications_by_status: the rows of the run, counted by status
\* (the three keys start at 0; the model's rows have no other status)
CountClassificationsByStatus(cs, run_id) ==
    [st \in ClassificationStatuses |->
        Cardinality(ListClassificationsByRun(cs, run_id, st))]

RECURSIVE IdsInOrder(_)
\* the rows of a SELECT without ORDER BY, as SQLite yields them: by primary key
IdsInOrder(S) ==
    IF S = {} THEN <<>> ELSE <<SetMin(S)>> \o IdsInOrder(S \ {SetMin(S)})

\* the default of limit
DefaultLimit == 100

\* mutant: only a completed Classification of the run excludes its email
GetEmailsForClassificationCompletedOnly(es, cs, project_id, run_id, limit) ==
    LET classified_ids == {cs[i].email_id : i \in {j \in DOMAIN cs : /\ cs[j].run_id = run_id
                                                                     /\ cs[j].status = "completed"}}
        rows == IdsInOrder({e.id : e \in {x \in es : /\ x.project_id = project_id
                                                      /\ x.id \notin classified_ids}})
    IN  SubSeq(rows, 1, IF Len(rows) < limit THEN Len(rows) ELSE limit)

\* mutant: the project filter is missing
GetEmailsForClassificationAnyProject(es, cs, project_id, run_id, limit) ==
    LET classified_ids == {cs[i].email_id : i \in {j \in DOMAIN cs : cs[j].run_id = run_id}}
        rows == IdsInOrder({e.id : e \in {x \in es : x.id \notin classified_ids}})
    IN  SubSeq(rows, 1, IF Len(rows) < limit THEN Len(rows) ELSE limit)

\* get_emails_for_classification: the ids of the project's emails that no
\* Classification of the run names, at most limit of them
GetEmailsForClassification(es, cs, project_id, run_id, limit) ==
    LET classified_ids == {cs[i].email_id : i \in {j \in DOMAIN cs : cs[j].run_id = run_id}}
        rows == IdsInOrder({e.id : e \in {x \in es : /\ x.project_id = project_id
                                                      /\ x.id \notin classified_ids}})
    IN  SubSeq(rows, 1, IF Len(rows) < limit THEN Len(rows) ELSE limit)

ValidatorIdle ==
    /\ output_str = <<>>
    /\ vres = NoResult
    /\ vres2 = NoResult
    /\ vpc = "idle"

\* n emails of project 1 (ids 1..n) and one email of project 2 (id n + 1)
EmailsOf(n) == {Email(i, 1) : i \in 1..n} \cup {Email(n + 1, 2)}

(******************** the crud functions, called freely *******************)

\* the keywords update_classification_run is called with
UpdateKwargs ==
    {[status |-> st] : st \in RunStatuses}
    \cup {[status |-> "completed", completed_at |-> "utcnow"]}

Init ==
    /\ ValidatorIdle
    /\ runs = <<>>
    /\ classifications = <<>>
    /\ emails \in {EmailsOf(n) : n \in 0..MaxEmails}
    /\ opc = "idle"
    /\ orun = 0
    /\ gateway = <<>>
    /\ NoCall

\* create_classification_run(session, project_id, model, prompt_version)
CreateRun ==
    /\ Len(runs) < MaxRuns
    /\ \E p \in {e.project_id : e \in emails} :
           runs' = CreateClassificationRun(runs, p)
    /\ UNCHANGED <<vvars, classifications, emails, opc, orun, gateway, xvars>>

\* update_classification_run(session, run_id, **kwargs); run_id may name no row
UpdateRun ==
    /\ \E run_id \in 1..(Len(runs) + 1), kwargs \in UpdateKwargs :
           runs' = UpdateClassificationRun(runs, run_id, kwargs)
    /\ UNCHANGED <<vvars, classifications, emails, opc, orun, gateway, xvars>>

\* create_classification(session, email_id, run_id, ..., status)
StoreClassification ==
    /\ Len(classifications) < MaxClassifications
    /\ \E e \in emails, r \in DOMAIN runs, st \in {"completed", "failed"} :
           classifications' =
               CreateClassification(classifications, e.id, runs[r].run_id, TRUE,
                                    VFloat(8, 1), VList(<<>>), <<"o", "k">>, st)
    /\ UNCHANGED <<vvars, runs, emails, opc, orun, gateway, xvars>>

Next == CreateRun \/ UpdateRun \/ StoreClassification

Spec == Init /\ [][Next]_vars

(*********************** the run loop (spec.md 4.4) ***********************)

GenerateText(t) == [kind |-> "text", text |-> t]
GenerateError(kind) == [kind |-> kind, text |-> <<>>]

AcceptedText ==
    JsonDumps(VDict(MkObject(VBool(TRUE), VFloat(8, 1), VStr(<<"o", "k">>),
                             VList(<<VStr(<<"a">>)>>), Absent)))
\* what generate ends with for one email: a response the validator accepts,
\* one it rejects, a timeout
GatewayOutcomes ==
    {GenerateText(AcceptedText),
     GenerateText(<<"n", "o", " ", "J", "S", "O", "N">>),
     GenerateError("TimeoutError")}

\* one email of another project (project 2) is stored; the model service
\* would answer well for it
InitRun ==
    /\ ValidatorIdle
    /\ runs = <<>>
    /\ classifications = <<>>
    /\ emails = {Email(1, 2)}
    /\ gateway = <<GenerateText(AcceptedText)>>
    /\ NoCall
    /\ opc = "idle"
    /\ orun = 0

\* before the first run an email of project 1 is stored; what generate will
\* end with for it is fixed here
Ingest ==
    /\ opc = "idle"
    /\ Cardinality(emails) <= MaxEmails
    /\ \E o \in GatewayOutcomes : gateway' = Append(gateway, o)
    /\ emails' = emails \cup {Email(Cardinality(emails) + 1, 1)}
    /\ UNCHANGED <<vvars, runs, classifications, opc, orun, xvars>>

\* the emails the run still has to classify
Remaining == GetEmailsForClassification(emails, classifications, 1, orun, DefaultLimit)

\* on start: a Run record with zero counters, status pending; a further run
\* over the same emails may be started once the run before is done
StartRun ==
    /\ opc \in {"idle", "done"}
    /\ Len(runs) < MaxRuns
    /\ runs' = CreateClassificationRun(runs, 1)
    /\ orun' = NewRunId(runs)
    /\ opc' = "created"
    /\ UNCHANGED <<vvars, classifications, emails, gateway, xvars>>

\* pending -> running
BeginRun ==
    /\ opc = "created"
    /\ runs' = UpdateClassificationRun(runs, orun,
                   [status |-> "running", total_count |-> Len(Remaining)])
    /\ opc' = "running"
    /\ UNCHANGED <<vvars, classifications, emails, orun, gateway, xvars>>

\* the email the loop takes next
NextEmail == Remaining[1]
\* what the validator makes of the text generate gave for the email
Verdict == ValidateOutput(gateway[NextEmail].text)
\* how the attempt on the email ends: "ok", or the kind of the error
Attempt == IF gateway[NextEmail].kind # "text" THEN gateway[NextEmail].kind ELSE Verdict.kind
CountOf(counter) == runs[CHOOSE i \in GetClassificationRun(runs, orun) : TRUE][counter]

\* one email: generate gave a text and the validator a verdict; a completed
\* Classification is stored and the completed counter goes up
ClassifyCompleted ==
    /\ opc = "running"
    /\ Remaining # <<>>
    /\ Attempt = "ok"
    /\ classifications' =
           CreateClassification(classifications, NextEmail, orun,
                                DictGet(Verdict.data, K_responsive).b,
                                DictGet(Verdict.data, K_confidence),
                                DictGet(Verdict.data, K_labels),
                                DictGet(Verdict.data, K_reason).s, "completed")
    /\ runs' = UpdateClassificationRun(runs, orun,
                   [completed_count |-> CountOf("completed_count") + 1])
    /\ UNCHANGED <<vvars, emails, opc, orun, gateway, xvars>>

\* one email: generate or the validator failed; a failed Classification is
\* stored through create_classification (which takes no error text) and the
\* failed counter goes up; the run goes on
ClassifyFailed ==
    /\ opc = "running"
    /\ Remaining # <<>>
    /\ Attempt # "ok"
    /\ classifications' =
           CreateClassification(classifications, NextEmail, orun, FALSE,
                                VFloat(0, 0), VList(<<>>), <<>>, "failed")
    /\ runs' = UpdateClassificationRun(runs, orun,
                   [failed_count |-> CountOf("failed_count") + 1])
    /\ UNCHANGED <<vvars, emails, opc, orun, gateway, xvars>>

\* every eligible email has its Classification: completed, completed_at set
FinishRun ==
    /\ opc = "running"
    /\ Remaining = <<>>
    /\ runs' = UpdateClassificationRun(runs, orun,
                   [status |-> "completed", completed_at |-> "utcnow"])
    /\ opc' = "done"
    /\ UNCHANGED <<vvars, classifications, emails, orun, gateway, xvars>>

\* the steps of a started run
RunStep == BeginRun \/ ClassifyCompleted \/ ClassifyFailed \/ FinishRun

NextRun == Ingest \/ StartRun \/ RunStep

\* a run that was started and is not done
Started == opc \in {"created", "running"}

\* the loop is one sequential process and every generate call ends (with a
\* text or an error), so a started run takes its next step: weak fairness of
\* RunStep, which is enabled exactly while the run is Started
RunFairness == []<>(~Started) \/ []<><<RunStep>>_vars

SpecRun == InitRun /\ [][NextRun]_vars /\ RunFairness

(*************************** claims on runs ******************************)

\* the emails of the run's project: all are eligible when the run starts
Eligible == {e.id : e \in {x \in emails : x.project_id = 1}}
\* the emails on which generate or the validator fails
Failing ==
    {e \in Eligible : \/ gateway[e].kind # "text"
                      \/ ValidateOutput(gateway[e].text).kind # "ok"}
TheRun == runs[CHOOSE i \in DOMAIN runs : runs[i].run_id = orun]

C9_Outcome ==
    opc = "done" =>
        /\ TheRun.status = "completed"
        /\ TheRun.completed_at # "None"
        /\ TheRun.completed_count = Cardinality(Eligible) - Cardinality(Failing)
        /\ TheRun.failed_count = Cardinality(Failing)
        /\ \A e \in Eligible :
               Cardinality({i \in ListClassificationsByRun(classifications, orun, "") :
                               /\ classifications[i].email_id = e
                               /\ classifications[i].status \in {"completed", "failed"}}) = 1
        /\ \A i \in ListClassificationsByRun(classifications, orun, "") :
               classifications[i].email_id \in Eligible

C9_NotAborted ==
    opc \in {"created", "running", "done"} =>
        /\ TheRun.status \in {"pending", "running", "completed"}
        /\ (TheRun.status = "completed") = (opc = "done")

\* C9: a run over N eligible emails of which k fail always reaches completed
\* with completed_at set, completed_count = N - k, failed_count = k and one
\* terminal Classification per eligible email; no failure aborts the run or
\* makes it failed.
C9_RunCompletes ==
    /\ [](C9_Outcome /\ C9_NotAborted)
    /\ Started ~> (opc = "done")

\* five eligible emails, two of them timing out: completed, 3, 2
C9_Witness ==
    /\ opc = "done"
    /\ Cardinality(Eligible) = 5
    /\ {e \in Eligible : gateway[e].kind = "TimeoutError"} = Failing
    /\ Cardinality(Failing) = 2
    /\ TheRun.status = "completed"
    /\ TheRun.completed_count = 3
    /\ TheRun.failed_count = 2

TerminalStatuses == {"completed", "cancelled", "failed"}
StatusStep(from, to) ==
    \/ to = from
    \/ from = "pending" /\ to = "running"
    \/ from = "running" /\ to \in TerminalStatuses

\* C10: a run is created pending and its status only moves pending -> running
\* -> completed | cancelled | failed; a completed, cancelled or failed run
\* keeps its status under every operation.
C10_StatusStateMachine ==
    [][\A i \in DOMAIN runs' :
           IF i \in DOMAIN runs
           THEN StatusStep(runs[i].status, runs'[i].status)
           ELSE runs'[i].status = "pending"]_vars

(************* create_classification and the query, called freely *********)

\* the values of Classification.status, as its comment lists them

InitStore ==
    /\ ValidatorIdle
    /\ runs = <<>>
    /\ classifications = <<>>
    /\ emails \in {EmailsOf(n) : n \in 0..MaxClassifications}
    /\ opc = "idle"
    /\ orun = 0
    /\ gateway = <<>>
    /\ NoCall

\* create_classification(session, email_id, run_id, ..., status): run_id is a
\* plain column, any string is stored
StoreUnderRun ==
    /\ Len(classifications) < MaxClassifications
    /\ \E e \in emails, run_id \in 1..MaxRuns, st \in ClassificationStatuses :
           /\ classifications' =
                  CreateClassification(classifications, e.id, run_id, TRUE,
                                       VFloat(8, 1), VList(<<>>), <<"o", "k">>, st)
           /\ call' = [op |-> "create_classification", email_id |-> e.id,
                       run_id |-> run_id, status |-> st]
    /\ ret' = Len(classifications) + 1
    /\ UNCHANGED <<vvars, runs, emails, opc, orun, gateway, wvars, cvars, pvars, dvars>>

\* get_emails_for_classification(session, project_id, run_id, limit)
FetchForRun ==
    /\ \E p \in {1, 2}, run_id \in 1..MaxRuns, limit \in {1, DefaultLimit} :
           /\ call' = [op |-> "get_emails_for_classification", project_id |-> p,
                       run_id |-> run_id, limit |-> limit]
           /\ ret' = GetEmailsForClassification(emails, classifications, p, run_id, limit)
    /\ UNCHANGED <<vvars, rvars, wvars, cvars, pvars, dvars>>

NextStore == StoreUnderRun \/ FetchForRun

SpecStore == InitStore /\ [][NextStore]_vars

\* the emails of the project that no Classification stored under the run names
Unclassified(project_id, run_id) ==
    {e.id : e \in {x \in emails :
                      /\ x.project_id = project_id
                      /\ ~\E i \in DOMAIN classifications :
                              /\ classifications[i].email_id = x.id
                              /\ classifications[i].run_id = run_id}}

Fetched == call.op = "get_emails_for_classification"

\* C11: the query returns only emails of the project without a Classification
\* of any status under the run, each once, and all of them up to limit; rows of
\* other runs do not count; when every email of the project has a row under
\* the run the result is empty.
C11_SetDifferenceByRun ==
    Fetched =>
        LET rest == Unclassified(call.project_id, call.run_id)
        IN  /\ \A i \in DOMAIN ret : ret[i] \in rest
            /\ \A i, j \in DOMAIN ret : i # j => ret[i] # ret[j]
            /\ Len(ret) = IF Cardinality(rest) < call.limit
                          THEN Cardinality(rest) ELSE call.limit
            /\ rest = {} => ret = <<>>

\* email 1 failed under run 1, email 2 has a row under run 2 only: the query
\* for run 1 gives email 2 and not email 1
C11_Witness ==
    /\ Fetched
    /\ call.project_id = 1 /\ call.run_id = 1 /\ call.limit = DefaultLimit
    /\ \E i \in DOMAIN classifications :
           /\ classifications[i].email_id = 1
           /\ classifications[i].run_id = 1
           /\ classifications[i].status = "failed"
    /\ \E i \in DOMAIN classifications :
           classifications[i].email_id = 2 /\ classifications[i].run_id = 2
    /\ ret = <<2>>

(************* concurrent workers of one run (spec.md 5) ******************)

NumWorkers == 2
MaxBatch == 2
Workers == 1..NumWorkers

\* how an attempt with that gateway outcome ends: "ok", or the kind of the error
AttemptOf(o) == IF o.kind # "text" THEN o.kind ELSE ValidateOutput(o.text).kind

\* what is stored for each gateway outcome: the status, and the validated
\* fields of an accepted response (a failed row carries no verdict)
Attempts ==
    [o \in GatewayOutcomes |->
        IF AttemptOf(o) = "ok"
        THEN [status |-> "completed",
              responsive_pred |-> DictGet(ValidateOutput(o.text).data, K_responsive).b,
              confidence |-> DictGet(ValidateOutput(o.text).data, K_confidence),
              labels |-> DictGet(ValidateOutput(o.text).data, K_labels),
              reason |-> DictGet(ValidateOutput(o.text).data, K_reason).s]
        ELSE [status |-> "failed", responsive_pred |-> FALSE,
              confidence |-> VFloat(0, 0), labels |-> VList(<<>>), reason |-> <<>>]]

\* an earlier run over email 1 is completed; the emails of the batch are
\* stored; every worker is idle; gateway holds what the model service can
\* answer, each answer with what the validator makes of it
InitWorkers ==
    /\ ValidatorIdle
    /\ runs = UpdateClassificationRun(CreateClassificationRun(<<>>, 1), 1,
                  [status |-> "completed", completed_at |-> "utcnow",
                   total_count |-> 1, completed_count |-> 1])
    /\ classifications =
           CreateClassification(<<>>, 1, 1, TRUE, VFloat(8, 1), VList(<<>>),
                                <<"o", "k">>, "completed")
    /\ emails = EmailsOf(MaxBatch)
    /\ gateway = Attempts
    /\ call = [op |-> "none"]
    /\ ret = "None"
    /\ ollama = NewClient
    /\ builder = NoBuilder
    /\ reviews = <<>>
    /\ items = <<>>
    /\ wpc = [w \in Workers |-> "idle"]
    /\ wemail = [w \in Workers |-> 0]
    /\ opc = "idle"
    /\ orun = 0

\* the run is created (once) and set running, as in the sequential loop
StartWorkers ==
    /\ opc = "idle"
    /\ runs' = CreateClassificationRun(runs, 1)
    /\ orun' = NewRunId(runs)
    /\ opc' = "created"
    /\ UNCHANGED <<vvars, classifications, emails, gateway, xvars>>

\* the Run record read back from the store
RunRow == runs[CHOOSE i \in GetClassificationRun(runs, orun) : TRUE]

\* dispatch with the check of the run's status left out
MayDispatchAlways(row) == TRUE

\* new emails are dispatched only while the run is running
MayDispatch(row) == row.status = "running"

\* an idle worker fetches the emails without a Classification under the run
\* and sends one of them to the model service
Dispatch(w) ==
    /\ opc = "running"
    /\ wpc[w] = "idle"
    /\ MayDispatch(RunRow)
    /\ \E i \in DOMAIN Remaining :
           wemail' = [wemail EXCEPT ![w] = Remaining[i]]
    /\ wpc' = [wpc EXCEPT ![w] = "generating"]
    /\ UNCHANGED <<vvars, rvars, call, ret, cvars, pvars, dvars>>

\* the row stored for an attempt on email e
StoreAttempt(cs, e, o) ==
    CreateClassification(cs, e, orun, gateway[o].responsive_pred,
                         gateway[o].confidence, gateway[o].labels,
                         gateway[o].reason, gateway[o].status)

\* the generation of worker w ends (text or error); the Classification is
\* stored and the run's counter raised in one serialized step: the counter
\* is read and written with no other completion in between
Complete(w) ==
    /\ wpc[w] = "generating"
    /\ \E o \in DOMAIN gateway :
           /\ classifications' = StoreAttempt(classifications, wemail[w], o)
           /\ runs' = UpdateClassificationRun(runs, orun,
                          IF gateway[o].status = "completed"
                          THEN [completed_count |-> RunRow.completed_count + 1]
                          ELSE [failed_count |-> RunRow.failed_count + 1])
    /\ wpc' = [wpc EXCEPT ![w] = "idle"]
    /\ wemail' = [wemail EXCEPT ![w] = 0]
    /\ UNCHANGED <<vvars, emails, opc, orun, gateway, call, ret, cvars, pvars, dvars>>

\* the user cancels the running run
Cancel ==
    /\ opc = "running"
    /\ RunRow.status = "running"
    /\ runs' = UpdateClassificationRun(runs, orun, [status |-> "cancelled"])
    /\ UNCHANGED <<vvars, classifications, emails, opc, orun, gateway, xvars>>

AllIdle == \A w \in Workers : wpc[w] = "idle"

\* nothing left and nothing in flight: completed
FinishWorkers ==
    /\ opc = "running"
    /\ RunRow.status = "running"
    /\ AllIdle
    /\ Remaining = <<>>
    /\ runs' = UpdateClassificationRun(runs, orun,
                   [status |-> "completed", completed_at |-> "utcnow"])
    /\ opc' = "done"
    /\ UNCHANGED <<vvars, classifications, emails, orun, gateway, xvars>>

\* a cancelled run ends once nothing is in flight
StopCancelled ==
    /\ opc = "running"
    /\ RunRow.status = "cancelled"
    /\ AllIdle
    /\ opc' = "done"
    /\ UNCHANGED <<vvars, runs, classifications, emails, orun, gateway, xvars>>

NextWorkers ==
    \/ StartWorkers
    \/ BeginRun
    \/ \E w \in Workers : Dispatch(w)
    \/ \E w \in Workers : Complete(w)
    \/ Cancel
    \/ FinishWorkers
    \/ StopCancelled

\* every generate call ends, with a text or an error: weak fairness of each
\* worker's completion, which is enabled exactly while it is generating
WorkersFairness ==
    \A w \in Workers :
        []<>(wpc[w] # "generating") \/ []<><<Complete(w)>>_vars

SpecWorkers == InitWorkers /\ [][NextWorkers]_vars /\ WorkersFairness

(************************ claims on failed rows ***************************)

\* C14: a per-email failure of the model gateway or of the validator is
\* stored as a failed Classification whose error_message holds the error
\* text; none is stored with an empty error_message.
C14_FailureKeepsErrorText ==
    \A i \in DOMAIN classifications :
        classifications[i].status = "failed" =>
            classifications[i].error_message # "None"

(*********************** claims on concurrent runs ************************)

InitFetchStore ==
    /\ ValidatorIdle
    /\ runs = <<>>
    /\ classifications = <<>>
    /\ emails = EmailsOf(MaxBatch)
    /\ gateway = <<>>
    /\ call = [op |-> "none"]
    /\ ret = "None"
    /\ ollama = NewClient
    /\ builder = NoBuilder
    /\ reviews = <<>>
    /\ items = <<>>
    /\ wpc = [w \in Workers |-> "idle"]
    /\ wemail = [w \in Workers |-> 0]
    /\ opc = "idle"
    /\ orun = 0

\* worker w calls get_emails_for_classification(session, 1, run 1) and takes
\* one of the emails returned
WorkerFetch(w) ==
    /\ wpc[w] = "idle"
    /\ call' = [op |-> "get_emails_for_classification", project_id |-> 1,
                run_id |-> 1, limit |-> DefaultLimit]
    /\ ret' = GetEmailsForClassification(emails, classifications, 1, 1, DefaultLimit)
    /\ \E i \in DOMAIN ret' : wemail' = [wemail EXCEPT ![w] = ret'[i]]
    /\ wpc' = [wpc EXCEPT ![w] = "generating"]
    /\ UNCHANGED <<vvars, rvars, cvars, pvars, dvars>>

\* worker w calls create_classification for the email it took, with the
\* success row or the failure row
WorkerStore(w) ==
    /\ wpc[w] = "generating"
    /\ \E st \in {"completed", "failed"} :
           /\ classifications' =
                  IF st = "completed"
                  THEN CreateClassification(classifications, wemail[w], 1, TRUE,
                                            VFloat(8, 1), VList(<<>>), <<"o", "k">>, st)
                  ELSE CreateClassification(classifications, wemail[w], 1, FALSE,
                                            VFloat(0, 0), VList(<<>>), <<>>, st)
           /\ call' = [op |-> "create_classification", email_id |-> wemail[w],
                       run_id |-> 1, status |-> st]
    /\ ret' = Len(classifications) + 1
    /\ wpc' = [wpc EXCEPT ![w] = "idle"]
    /\ wemail' = [wemail EXCEPT ![w] = 0]
    /\ UNCHANGED <<vvars, runs, emails, opc, orun, gateway, cvars, pvars, dvars>>

NextFetchStore == \E w \in Workers : WorkerFetch(w) \/ WorkerStore(w)

SpecFetchStore == InitFetchStore /\ [][NextFetchStore]_vars

\* C13: at most one Classification per (email, run) pair in every
\* interleaving of workers that fetch with get_emails_for_classification and
\* store with create_classification, each row a complete success row or a
\* complete failure row.
C13_OnePerEmailAndRun ==
    /\ \A i, j \in DOMAIN classifications :
           (/\ classifications[i].email_id = classifications[j].email_id
            /\ classifications[i].run_id = classifications[j].run_id) => i = j
    /\ \A i \in DOMAIN classifications :
           classifications[i].status \in {"completed", "failed"}
(************************ claims on cancellation **************************)

Cancelled == orun # 0 /\ RunRow.status = "cancelled"

\* worker w sends an email to the model service in this step
Dispatched(w) == wpc[w] = "idle" /\ wpc'[w] = "generating"

\* the generation of worker w ends in this step and its Classification is
\* stored under the run
StoredInFlight(w) ==
    (wpc[w] = "generating" /\ wpc'[w] = "idle") =>
        /\ Len(classifications') = Len(classifications) + 1
        /\ classifications'[Len(classifications')].email_id = wemail[w]
        /\ classifications'[Len(classifications')].run_id = orun
        /\ classifications'[Len(classifications')].status \in {"completed", "failed"}

\* C15: cancellation is cooperative: once the run is marked cancelled no
\* further email is dispatched to the model gateway, while every generation
\* in flight at that moment finishes and its Classification is stored under
\* the run.
C15_CooperativeCancel ==
    /\ [][Cancelled => \A w \in Workers : ~Dispatched(w)]_vars
    /\ [][\A w \in Workers : StoredInFlight(w)]_vars
    /\ \A w \in Workers : (Cancelled /\ wpc[w] = "generating") ~> (wpc[w] = "idle")

\* the run is cancelled while one generation is in flight, an idle worker is
\* there and an email without a Classification is left
C15_Witness ==
    /\ Cancelled
    /\ \E w, v \in Workers : wpc[w] = "generating" /\ wpc[v] = "idle"
    /\ \E i \in DOMAIN Remaining : \A w \in Workers : wemail[w] # Remaining[i]
(***************** storing emails: create_email, bulk ********************)

MaxItems == 2

\* hashlib.sha256(body_text.encode()).hexdigest(): a text of its own for
\* every body (no two bodies of the model collide)
Sha256(body_text) == <<"sha256", body_text>>

\* sha256 as given, or computed from the body when it is None or empty
HashOf(sha256, body_text) ==
    IF sha256 \in {<<"None">>, <<>>} THEN Sha256(body_text) ELSE sha256

\* Email(project_id=..., path=..., sha256=...) with its primary key
StoredEmail(id, project_id, path, sha256) ==
    [id |-> id, project_id |-> project_id, path |-> path, sha256 |-> sha256]

\* the primary key SQLite gives the next row of the table
NextEmailId(es) == IF es = {} THEN 1 ELSE SetMax({e.id : e \in es}) + 1

\* get_email_by_sha256 with the project filter left out
GetEmailBySha256AnyProject(es, project_id, sha256) ==
    LET found == {e \in es : e.sha256 = sha256}
    IN  {e \in found : e.id = SetMin({x.id : x \in found})}

\* get_email_by_sha256: .first() of the project's rows with that hash
\* (none: the empty set)
GetEmailBySha256(es, project_id, sha256) ==
    LET found == {e \in es : e.project_id = project_id /\ e.sha256 = sha256}
    IN  {e \in found : e.id = SetMin({x.id : x \in found})}

\* create_email that writes the new path on the row it found
CreateEmailOverwrite(es, project_id, path, body_text, sha256) ==
    LET h == HashOf(sha256, body_text)
        existing == GetEmailBySha256(es, project_id, h)
        email == StoredEmail(NextEmailId(es), project_id, path, h)
    IN  IF existing # {}
        THEN [emails |-> (es \ existing) \cup {[e EXCEPT !.path = path] : e \in existing},
              ret |-> CHOOSE e \in {[x EXCEPT !.path = path] : x \in existing} : TRUE]
        ELSE [emails |-> es \cup {email}, ret |-> email]

\* create_email: the existing row of the project with that hash is returned
\* as it is; else the new row is stored and returned
CreateEmail(es, project_id, path, body_text, sha256) ==
    LET h == HashOf(sha256, body_text)
        existing == GetEmailBySha256(es, project_id, h)
        email == StoredEmail(NextEmailId(es), project_id, path, h)
    IN  IF existing # {}
        THEN [emails |-> es, ret |-> CHOOSE e \in existing : TRUE]
        ELSE [emails |-> es \cup {email}, ret |-> email]

RECURSIVE BulkLoopCommitted(_, _, _, _, _)
BulkLoopCommitted(acc, committed, project_id, emails_data, i) ==
    IF i > Len(emails_data) THEN acc
    ELSE LET h == HashOf(emails_data[i].sha256, emails_data[i].body_text)
         IN  IF GetEmailBySha256(committed, project_id, h) # {}
             THEN BulkLoopCommitted([acc EXCEPT !.duplicates = @ + 1],
                                    committed, project_id, emails_data, i + 1)
             ELSE BulkLoopCommitted(
                      [acc EXCEPT !.created = @ + 1,
                                  !.emails = @ \cup {StoredEmail(NextEmailId(acc.emails),
                                                       project_id, emails_data[i].path, h)}],
                      committed, project_id, emails_data, i + 1)

\* bulk_create_emails whose lookup sees the committed rows only
BulkCreateEmailsCommittedOnly(es, project_id, emails_data) ==
    BulkLoopCommitted([emails |-> es, created |-> 0, duplicates |-> 0], es,
                      project_id, emails_data, 1)

RECURSIVE BulkLoop(_, _, _, _)
\* for data in emails_data: the lookup flushes the session first, so it sees
\* the rows added earlier in the loop
BulkLoop(acc, project_id, emails_data, i) ==
    IF i > Len(emails_data) THEN acc
    ELSE LET h == HashOf(emails_data[i].sha256, emails_data[i].body_text)
         IN  IF GetEmailBySha256(acc.emails, project_id, h) # {}
             THEN BulkLoop([acc EXCEPT !.duplicates = @ + 1],
                           project_id, emails_data, i + 1)
             ELSE BulkLoop(
                      [acc EXCEPT !.created = @ + 1,
                                  !.emails = @ \cup {StoredEmail(NextEmailId(acc.emails),
                                                       project_id, emails_data[i].path, h)}],
                      project_id, emails_data, i + 1)

\* bulk_create_emails: the rows after the commit and (created, duplicates)
BulkCreateEmails(es, project_id, emails_data) ==
    BulkLoop([emails |-> es, created |-> 0, duplicates |-> 0],
             project_id, emails_data, 1)

EmailData(path, body_text, sha256) ==
    [path |-> path, body_text |-> body_text, sha256 |-> sha256]

\* the items uploaded: a content, the same content under another file name,
\* another content
BatchItems ==
    {EmailData("/email1.txt", "content 1", <<"None">>),
     EmailData("/duplicate.txt", "content 1", <<"None">>),
     EmailData("/email2.txt", "content 2", <<"None">>)}

\* create_email is also called with a hash given: the hash of another
\* content, the empty text
SingleItems ==
    BatchItems \cup {EmailData("/duplicate.txt", "content 2", Sha256("content 1")),
                     EmailData("/email2.txt", "content 2", <<>>)}

Batches == UNION {[1..n -> BatchItems] : n \in 0..MaxItems}

InitIngest ==
    /\ ValidatorIdle
    /\ RunsIdle

CreateEmailCall ==
    /\ \E project_id \in {1, 2}, d \in SingleItems :
           /\ call' = [op |-> "create_email", project_id |-> project_id, data |-> <<d>>]
           /\ emails' = CreateEmail(emails, project_id, d.path, d.body_text, d.sha256).emails
           /\ ret' = CreateEmail(emails, project_id, d.path, d.body_text, d.sha256).ret
    /\ UNCHANGED <<vvars, runs, classifications, opc, orun, gateway, wvars, cvars, pvars, dvars>>

BulkCreateEmailsCall ==
    /\ \E project_id \in {1, 2}, emails_data \in Batches :
           /\ call' = [op |-> "bulk_create_emails", project_id |-> project_id,
                       data |-> emails_data]
           /\ emails' = BulkCreateEmails(emails, project_id, emails_data).emails
           /\ ret' = <<BulkCreateEmails(emails, project_id, emails_data).created,
                       BulkCreateEmails(emails, project_id, emails_data).duplicates>>
    /\ UNCHANGED <<vvars, runs, classifications, opc, orun, gateway, wvars, cvars, pvars, dvars>>

NextIngest == CreateEmailCall \/ BulkCreateEmailsCall

SpecIngest == InitIngest /\ [][NextIngest]_vars

(************************ claims on stored emails *************************)

\* C16: after any sequence of create_email and bulk_create_emails calls every
\* project holds at most one stored Email per content hash, duplicates inside
\* one bulk_create_emails batch included.
C16_OnePerProjectAndHash ==
    \A e1, e2 \in emails :
        (e1.project_id = e2.project_id /\ e1.sha256 = e2.sha256) => e1 = e2

\* a batch that held the same content twice was stored into a project that
\* had none of it: one created, one duplicate
C16_Witness ==
    /\ call.op = "bulk_create_emails"
    /\ ret = <<1, 1>>
    /\ \E i, j \in DOMAIN call.data :
           /\ i < j
           /\ call.data[i].path # call.data[j].path
           /\ HashOf(call.data[i].sha256, call.data[i].body_text)
                  = HashOf(call.data[j].sha256, call.data[j].body_text)

\* the stored Emails of project p with hash h
WithHash(es, p, h) == {e \in es : e.project_id = p /\ e.sha256 = h}

\* the hash of the content a create_email call names
CallHash(c) == HashOf(c.data[1].sha256, c.data[1].body_text)

\* what a create_email step does to the store, and what it returns
CreateEmailEffect ==
    call'.op = "create_email" =>
        IF WithHash(emails, call'.project_id, CallHash(call')) = {}
        THEN /\ ret' \notin emails
             /\ \A e \in emails : e.id # ret'.id
             /\ emails' = emails \cup {ret'}
             /\ ret'.project_id = call'.project_id
             /\ ret'.sha256 = CallHash(call')
             /\ ret'.path = call'.data[1].path
        ELSE /\ emails' = emails
             /\ ret' \in WithHash(emails, call'.project_id, CallHash(call'))

\* C17: create_email for project p and hash h stores a new Email exactly
\* when project p has no Email with hash h (other projects do not count);
\* else it returns the existing record and changes nothing in the store, the
\* record's path included.
C17_CreateEmailPerProject == [][CreateEmailEffect]_vars

\* the content was stored in both projects, and a call with another file
\* name got the project's existing record back
C17_Witness ==
    /\ call.op = "create_email"
    /\ ret.path # call.data[1].path
    /\ ret.project_id = call.project_id
    /\ \E e \in emails : e.project_id # ret.project_id /\ e.sha256 = ret.sha256

\* the items of a batch counted as duplicates: the hash is stored in the
\* project already or occurred earlier in the batch
DuplicateItems(es, p, emails_data) ==
    {i \in DOMAIN emails_data :
        LET h == HashOf(emails_data[i].sha256, emails_data[i].body_text)
        IN  \/ WithHash(es, p, h) # {}
            \/ \E j \in 1..(i - 1) :
                   HashOf(emails_data[j].sha256, emails_data[j].body_text) = h}

InProject(es, p) == {e \in es : e.project_id = p}

\* what a bulk_create_emails step returns and does to the store
BulkCreateEffect ==
    call'.op = "bulk_create_emails" =>
        /\ ret'[1] + ret'[2] = Len(call'.data)
        /\ ret'[2] = Cardinality(DuplicateItems(emails, call'.project_id, call'.data))
        /\ Cardinality(InProject(emails', call'.project_id))
               = Cardinality(InProject(emails, call'.project_id)) + ret'[1]
        /\ emails \subseteq emails'

\* C18: bulk_create_emails returns (created, duplicates) with created +
\* duplicates the number of items; an item is a duplicate exactly when its
\* hash is stored in the project or occurred earlier in the batch; the
\* project grows by exactly created.
C18_BulkCounts == [][BulkCreateEffect]_vars

\* stored content was uploaded a second time, together with new content
\* under two file names: one created, two duplicates
C18_Witness ==
    /\ call.op = "bulk_create_emails"
    /\ Len(call.data) = MaxItems
    /\ ret[2] >= 1
    /\ ret[1] + ret[2] = MaxItems
    /\ \E e \in emails : e.project_id # call.project_id
    /\ Cardinality(InProject(emails, call.project_id)) > ret[1]
(******************** the Ollama client (client.py) ***********************)

\* timedelta(minutes=5), in minutes
CacheTtl == 5
\* the clock runs from 0 to MaxClock minutes
MaxClock == 6

\* the exception classes of httpx (and of a body that is no JSON), each with
\* its base class
BaseClass ==
    [ConnectError |-> "NetworkError", ReadError |-> "NetworkError",
     NetworkError |-> "TransportError",
     ConnectTimeout |-> "TimeoutException", ReadTimeout |-> "TimeoutException",
     TimeoutException |-> "TransportError",
     RemoteProtocolError |-> "ProtocolError", ProtocolError |-> "TransportError",
     TransportError |-> "RequestError", RequestError |-> "HTTPError",
     HTTPStatusError |-> "HTTPError", HTTPError |-> "Exception",
     JSONDecodeError |-> "ValueError", ValueError |-> "Exception"]

RECURSIVE IsInstance(_, _)
\* isinstance(exception of class cls, base)
IsInstance(cls, base) ==
    \/ cls = base
    \/ cls \in DOMAIN BaseClass /\ IsInstance(BaseClass[cls], base)

\* the clauses with the widest class first
ExceptClausesWidestFirst ==
    <<[catch |-> "HTTPError", raise |-> "RuntimeError"],
      [catch |-> "ConnectError", raise |-> "ConnectionError"],
      [catch |-> "TimeoutException", raise |-> "TimeoutError"]>>

\* the except clauses of list_models and generate, in their order
ExceptClauses ==
    <<[catch |-> "ConnectError", raise |-> "ConnectionError"],
      [catch |-> "TimeoutException", raise |-> "TimeoutError"],
      [catch |-> "HTTPError", raise |-> "RuntimeError"]>>

\* try/except: the first clause the exception is an instance of raises its
\* kind; an exception no clause names goes on to the caller as it is
Handle(cls) ==
    LET matching == {i \in DOMAIN ExceptClauses :
                        IsInstance(cls, ExceptClauses[i].catch)}
    IN  IF matching = {} THEN cls ELSE ExceptClauses[SetMin(matching)].raise

Returned(v) == [raised |-> "None", value |-> v]
Raised(kind) == [raised |-> kind, value |-> <<>>]

\* what the upstream request ends with: a 200 answer with a body, an answer
\* with another status, or an exception
UpstreamOk(body) == [kind |-> "ok", body |-> body, exc |-> "None", status_code |-> 200]
UpstreamStatus(status_code) ==
    [kind |-> "status", body |-> <<>>, exc |-> "None", status_code |-> status_code]
UpstreamRaises(cls) == [kind |-> "raise", body |-> <<>>, exc |-> cls, status_code |-> 0]
NotAsked == [kind |-> "none", body |-> <<>>, exc |-> "None", status_code |-> 0]

UpstreamFailures ==
    {UpstreamRaises(cls) :
        cls \in {"ConnectError", "TimeoutException", "ConnectTimeout", "ReadTimeout",
                 "HTTPStatusError", "ReadError", "RemoteProtocolError",
                 "JSONDecodeError"}}

\* /api/tags answers with no model or with two
TagsOutcomes ==
    {UpstreamOk(<<>>), UpstreamOk(<<"gemma3:4b", "phi4-mini:3.8b">>)}
    \cup UpstreamFailures

\* /api/generate answers with a response text
GenerateOutcomes == {UpstreamOk(<<"{}">>)} \cup UpstreamFailures

\* the cache check with a cache of exactly the TTL's age still taken as fresh
CacheFreshInclusive(c) ==
    /\ c.model_cache # <<>>
    /\ c.cache_timestamp # <<>>
    /\ c.now - c.cache_timestamp[1] <= CacheTtl

\* the cache check of list_models
CacheFresh(c) ==
    /\ c.model_cache # <<>>
    /\ c.cache_timestamp # <<>>
    /\ c.now - c.cache_timestamp[1] < CacheTtl

\* list_models, when the upstream request (if one is made) ends with up
ListModels(c, up) ==
    IF CacheFresh(c)
    THEN [client |-> c, ret |-> Returned(c.model_cache[1]), asked |-> NotAsked]
    ELSE IF up.kind = "ok"
         THEN [client |-> [c EXCEPT !.model_cache = <<up.body>>,
                                    !.cache_timestamp = <<c.now>>,
                                    !.fetched_at = <<c.now>>,
                                    !.cleared = FALSE],
               ret |-> Returned(up.body), asked |-> up]
         ELSE [client |-> c, ret |-> Raised(Handle(up.exc)), asked |-> up]

\* generate that goes on without streaming when stream is asked for
GenerateFallback(stream, up) ==
    [ret |-> IF up.kind = "ok" THEN Returned(up.body) ELSE Raised(Handle(up.exc)),
     asked |-> up]

\* generate, when the upstream request (if one is made) ends with up: with
\* stream set it raises before the payload is built
Generate(stream, up) ==
    IF stream
    THEN [ret |-> Raised("NotImplementedError"), asked |-> NotAsked]
    ELSE [ret |-> IF up.kind = "ok" THEN Returned(up.body) ELSE Raised(Handle(up.exc)),
          asked |-> up]

\* the probe answers 200, answers with another status, or the transport
\* fails (health_check neither calls raise_for_status nor reads the body)
ProbeOutcomes ==
    {UpstreamOk(<<>>), UpstreamStatus(404), UpstreamStatus(503)}
    \cup {UpstreamRaises(cls) :
             cls \in {"ConnectError", "TimeoutException", "ConnectTimeout",
                      "ReadTimeout", "ReadError", "RemoteProtocolError"}}

\* the classes health_check catches
HealthExcept == {"ConnectError", "TimeoutException"}

\* True and False as the caller gets them
PyBoolean(b) == IF b THEN <<"True">> ELSE <<"False">>

\* health_check: response.status_code == 200, False for the two classes
\* caught; any other exception goes on to the caller
HealthCheck(up) ==
    IF up.kind = "raise"
    THEN IF \E base \in HealthExcept : IsInstance(up.exc, base)
         THEN Returned(PyBoolean(FALSE))
         ELSE Raised(up.exc)
    ELSE Returned(PyBoolean(up.status_code = 200))

\* clear_cache
ClearCache(c) ==
    [c EXCEPT !.model_cache = <<>>, !.cache_timestamp = <<>>, !.cleared = TRUE]

InitClient ==
    /\ ValidatorIdle
    /\ runs = <<>>
    /\ classifications = <<>>
    /\ emails = {}
    /\ opc = "idle"
    /\ orun = 0
    /\ gateway = <<>>
    /\ wpc = <<>>
    /\ wemail = <<>>
    /\ call = [op |-> "none", asked |-> NotAsked, stream |-> FALSE]
    /\ ret = Returned(<<>>)
    /\ ollama = NewClient
    /\ builder = NoBuilder
    /\ reviews = <<>>
    /\ items = <<>>

ListModelsCall ==
    /\ \E up \in TagsOutcomes :
           /\ ollama' = ListModels(ollama, up).client
           /\ ret' = ListModels(ollama, up).ret
           /\ call' = [op |-> "list_models", asked |-> ListModels(ollama, up).asked,
                       stream |-> FALSE]
    /\ UNCHANGED <<vvars, rvars, wvars, pvars, dvars>>

GenerateCall ==
    /\ \E stream \in BOOLEAN, up \in GenerateOutcomes :
           /\ ret' = Generate(stream, up).ret
           /\ call' = [op |-> "generate", asked |-> Generate(stream, up).asked,
                       stream |-> stream]
    /\ UNCHANGED <<vvars, rvars, wvars, cvars, pvars, dvars>>

HealthCheckCall ==
    /\ \E up \in ProbeOutcomes :
           /\ ret' = HealthCheck(up)
           /\ call' = [op |-> "health_check", asked |-> up, stream |-> FALSE]
    /\ UNCHANGED <<vvars, rvars, wvars, cvars, pvars, dvars>>

ClearCacheCall ==
    /\ ollama' = ClearCache(ollama)
    /\ call' = [op |-> "clear_cache", asked |-> NotAsked, stream |-> FALSE]
    /\ ret' = Returned(<<>>)
    /\ UNCHANGED <<vvars, rvars, wvars, pvars, dvars>>

\* a minute passes
Tick ==
    /\ ollama.now < MaxClock
    /\ ollama' = [ollama EXCEPT !.now = @ + 1]
    /\ call' = [op |-> "none", asked |-> NotAsked, stream |-> FALSE]
    /\ ret' = Returned(<<>>)
    /\ UNCHANGED <<vvars, rvars, wvars, pvars, dvars>>

NextClient ==
    ListModelsCall \/ GenerateCall \/ HealthCheckCall \/ ClearCacheCall \/ Tick

SpecClient == InitClient /\ [][NextClient]_vars

(************************* claims on the client ***************************)

\* the client holds no result of a successful fetch younger than the TTL
NoYoungResult(c) ==
    \/ c.fetched_at = <<>>
    \/ c.cleared
    \/ c.now - c.fetched_at[1] >= CacheTtl

ListModelsEffect ==
    call'.op = "list_models" =>
        /\ (call'.asked # NotAsked) = NoYoungResult(ollama)
        /\ call'.asked = NotAsked =>
               /\ ret' = Returned(ollama.model_cache[1])
               /\ ollama' = ollama

\* C19: a list_models call issues an upstream request exactly when nothing
\* was fetched successfully yet, clear_cache was called since the last
\* successful fetch, or that fetch is at least 5 minutes old; else it returns
\* the cached list without a request.
C19_RequestIffNoYoungResult == [][ListModelsEffect]_vars

\* a second call within the TTL, minutes after the fetch that filled the
\* cache with an empty list, was answered from the cache
C19_Witness ==
    /\ call.op = "list_models"
    /\ call.asked = NotAsked
    /\ ret = Returned(<<>>)
    /\ ollama.now - ollama.fetched_at[1] = CacheTtl - 1

ConnectionFailures == {"ConnectError"}
Timeouts == {"TimeoutException", "ConnectTimeout", "ReadTimeout"}
OtherTransportErrors == {"HTTPStatusError", "ReadError", "RemoteProtocolError"}

\* the error kind assigned to each upstream failure cause
KindOfCause(cls) ==
    IF cls \in ConnectionFailures THEN "ConnectionError"
    ELSE IF cls \in Timeouts THEN "TimeoutError" ELSE "RuntimeError"

\* C20: generate and list_models report a connection failure, a timeout and
\* any other HTTP/transport error as ConnectionError, TimeoutError and
\* RuntimeError respectively, never as one of the other two, and a failed
\* call returns no result.
C20_ErrorKinds ==
    (/\ call.op \in {"generate", "list_models"}
     /\ call.asked.kind = "raise") =>
        /\ ret.value = <<>>
        /\ ret.raised # "None"
        /\ call.asked.exc \in ConnectionFailures \cup Timeouts \cup OtherTransportErrors
               => ret.raised = KindOfCause(call.asked.exc)

\* list_models ran into a timeout while an expired list was still in the
\* cache: TimeoutError, and no list returned
C20_Witness ==
    /\ call.op = "list_models"
    /\ call.asked.exc = "ReadTimeout"
    /\ ret = Raised("TimeoutError")
    /\ ollama.model_cache # <<>>

GenerateStreamEffect ==
    (call'.op = "generate" /\ call'.stream) =>
        /\ ret' = Raised("NotImplementedError")
        /\ call'.asked = NotAsked
        /\ ollama' = ollama

\* C21: generate with streaming asked for fails at once with the
\* not-supported error: no upstream request, the model cache unchanged, no
\* fall-back to a generation that returns a response.
C21_StreamNotSupported == [][GenerateStreamEffect]_vars

\* generate with stream set was called on a client with a filled cache
C21_Witness ==
    /\ call.op = "generate"
    /\ call.stream
    /\ ret.raised = "NotImplementedError"
    /\ ollama.model_cache # <<>>

\* C22: health_check always yields a boolean, true exactly when the service
\* answers the probe with HTTP 200 and false in every other case (connection
\* refused, timeout, any other transport error, another status); it never
\* raises to the caller.
C22_HealthCheckBoolean ==
    call.op = "health_check" =>
        /\ ret.raised = "None"
        /\ ret.value = PyBoolean(call.asked.kind = "ok")
(********************* the prompt builder (prompt.py) *********************)

K_version == <<"v", "e", "r", "s", "i", "o", "n">>
K_system == <<"s", "y", "s", "t", "e", "m">>
K_examples == <<"e", "x", "a", "m", "p", "l", "e", "s">>
K_output_schema == <<"o", "u", "t", "p", "u", "t", "_", "s", "c", "h", "e", "m", "a">>
K_subject == <<"s", "u", "b", "j", "e", "c", "t">>
K_from == <<"f", "r", "o", "m">>
K_body == <<"b", "o", "d", "y">>
K_output == <<"o", "u", "t", "p", "u", "t">>

\* _get_default_system_prompt(): the opening words stand for the text
DefaultSystemPrompt ==
    VStr(<<"Y", "o", "u", " ", "a", "r", "e", " ", "a", " ", "c", "a", "r", "e",
      "f", "u", "l", " ", "l", "e", "g", "a", "l", " ", "a", "s", "s", "i",
      "s", "t", "a", "n", "t">>)

\* _get_default_schema(): the four properties, each with its type
DefaultSchema ==
    VDict(<<Member(K_responsive, VStr(<<"b", "o", "o", "l", "e", "a", "n">>)),
            Member(K_confidence, VStr(<<"n", "u", "m", "b", "e", "r">>)),
            Member(K_reason, VStr(<<"s", "t", "r", "i", "n", "g">>)),
            Member(K_labels, VStr(<<"a", "r", "r", "a", "y">>))>>)

\* the dict _load_fewshot returns when the file does not exist
DefaultFewshot ==
    VDict(<<Member(K_version, VStr(<<"1", ".", "0">>)),
            Member(K_system, DefaultSystemPrompt),
            Member(K_examples, VList(<<>>)),
            Member(K_output_schema, DefaultSchema)>>)

\* the few-shot file: missing, or there with a content
NoFile == [exists |-> FALSE, content |-> <<>>]
FileWith(content) == [exists |-> TRUE, content |-> content]

\* _load_fewshot: the default when the file does not exist; else json.load,
\* whose JSONDecodeError is raised again as ValueError
LoadFewshot(file) ==
    IF ~file.exists THEN Returned(DefaultFewshot)
    ELSE IF JsonLoads(file.content).ok
         THEN Returned(JsonLoads(file.content).v)
         ELSE Raised("ValueError")

\* PromptBuilder.__init__(fewshot_path, version) with loaded the outcome of
\* self._load_fewshot(): version is None (the empty tuple) or a text; .get on
\* a loaded value that is no dict raises
NewPromptBuilder(loaded, version) ==
    IF loaded.raised # "None" THEN loaded
    ELSE IF loaded.value.t # "dict" THEN Raised("AttributeError")
    ELSE Returned(
             [version |-> IF version # <<>> /\ version[1] # <<>>
                          THEN VStr(version[1])
                          ELSE DictGetOr(loaded.value.d, K_version,
                                         VStr(<<"1", ".", "0">>)),
              system_prompt |-> DictGetOr(loaded.value.d, K_system, VStr(<<>>)),
              examples |-> DictGetOr(loaded.value.d, K_examples, VList(<<>>)),
              output_schema |->
                  DictGetOr(loaded.value.d, K_output_schema, VDict(<<>>))])

\* the literal parts of the prompt
T_Empty == <<>>
T_NA == <<"N", "/", "A">>
T_SchemaIntro == <<"Y", "o", "u", "r", " ", "o", "u", "t", "p", "u", "t", " ", "m", "u",
      "s", "t", " ", "b", "e", " ", "v", "a", "l", "i", "d", " ", "J", "S",
      "O", "N", " ", "w", "i", "t", "h", " ", "t", "h", "i", "s", " ", "s",
      "t", "r", "u", "c", "t", "u", "r", "e", ":">>
T_FenceJson == <<BQ, BQ, BQ, "j", "s", "o", "n">>
T_Fence == <<BQ, BQ, BQ>>
\* json.dumps of the structure shown to the model, indent=2
T_Schema ==
    <<"{", "\n", " ", " ", "\"", "r", "e", "s", "p", "o", "n", "s", "i", "v",
          "e", "\"", ":", " ", "\"", "b", "o", "o", "l", "e", "a", "n", " ",
          "(", "t", "r", "u", "e", "/", "f", "a", "l", "s", "e", ")", "\"",
          ",", "\n", " ", " ", "\"", "c", "o", "n", "f", "i", "d", "e", "n",
          "c", "e", "\"", ":", " ", "\"", "n", "u", "m", "b", "e", "r", " ",
          "(", "0", ".", "0", "-", "1", ".", "0", ")", "\"", ",", "\n", " ",
          " ", "\"", "r", "e", "a", "s", "o", "n", "\"", ":", " ", "\"", "s",
          "t", "r", "i", "n", "g", " ", "(", "m", "a", "x", " ", "2", "0", "0",
          " ", "c", "h", "a", "r", "s", ")", "\"", ",", "\n", " ", " ", "\"",
          "l", "a", "b", "e", "l", "s", "\"", ":", " ", "[", "\n", " ", " ",
          " ", " ", "\"", "l", "i", "s", "t", "\"", ",", "\n", " ", " ", " ",
          " ", "\"", "o", "f", "\"", ",", "\n", " ", " ", " ", " ", "\"", "l",
          "a", "b", "e", "l", "s", "\"", "\n", " ", " ", "]", "\n", "}">>
T_ExamplesIntro == <<"H", "e", "r", "e", " ", "a", "r", "e", " ", "s", "o", "m", "e", " ",
      "e", "x", "a", "m", "p", "l", "e", "s", " ", "o", "f", " ", "c", "o",
      "r", "r", "e", "c", "t", " ", "c", "l", "a", "s", "s", "i", "f", "i",
      "c", "a", "t", "i", "o", "n", "s", ":">>
T_Example == <<"E", "x", "a", "m", "p", "l", "e", " ">>
T_Colon == <<":">>
T_Subject == <<"S", "u", "b", "j", "e", "c", "t", ":", " ">>
T_From == <<"F", "r", "o", "m", ":", " ">>
T_To == <<"T", "o", ":", " ">>
T_Date == <<"D", "a", "t", "e", ":", " ">>
T_Body == <<"B", "o", "d", "y", ":", " ">>
T_Classification == <<"C", "l", "a", "s", "s", "i", "f", "i", "c", "a", "t", "i", "o", "n", ":">>
T_Now == <<"N", "o", "w", " ", "c", "l", "a", "s", "s", "i", "f", "y", " ", "t",
      "h", "i", "s", " ", "e", "m", "a", "i", "l", ":">>
T_JsonOnly == <<"C", "l", "a", "s", "s", "i", "f", "i", "c", "a", "t", "i", "o", "n",
      " ", "(", "o", "u", "t", "p", "u", "t", " ", "J", "S", "O", "N", " ",
      "o", "n", "l", "y", ")", ":">>

\* example['body'][:500]
ExampleBodyLen == 500

RECURSIVE JoinNl(_)
\* "\n".join(prompt_parts)
JoinNl(parts) ==
    IF parts = <<>> THEN <<>>
    ELSE IF Len(parts) = 1 THEN parts[1]
    ELSE parts[1] \o <<"\n">> \o JoinNl(Tail(parts))

\* the parts of few-shot example i (the model's examples carry an empty
\* output object, which json.dumps writes as {} with any indent)
ExampleParts(example, i) ==
    <<T_Example \o NatStr(i) \o T_Colon,
      T_Subject \o PyStr(DictGetOr(example.d, K_subject, VStr(T_NA)))>>
    \o (IF DictHas(example.d, K_from) /\ PyBool(DictGet(example.d, K_from))
        THEN <<T_From \o PyStr(DictGet(example.d, K_from))>> ELSE <<>>)
    \o (IF DictHas(example.d, K_body) /\ PyBool(DictGet(example.d, K_body))
        THEN <<T_Body \o SubSeq(DictGet(example.d, K_body).s, 1,
                       IF Len(DictGet(example.d, K_body).s) < ExampleBodyLen
                       THEN Len(DictGet(example.d, K_body).s) ELSE ExampleBodyLen)>>
        ELSE <<>>)
    \o <<T_Empty, T_Classification,
         JsonDumps(DictGetOr(example.d, K_output, VDict(<<>>))), T_Empty>>

RECURSIVE ExamplesParts(_, _)
\* for i, example in enumerate(self.examples, 1)
ExamplesParts(examples, i) ==
    IF i > Len(examples) THEN <<>>
    ELSE ExampleParts(examples[i], i) \o ExamplesParts(examples, i + 1)

\* the Email handed to build: subject, from_addr, to_addr, date are None (the
\* empty tuple) or a value (<<v>>), body_text is a text
PromptEmail(subject, from_addr, to_addr, date, body_text) ==
    [subject |-> subject, from_addr |-> from_addr, to_addr |-> to_addr,
     date |-> date, body_text |-> body_text]

\* a field is truthy: not None and not the empty text
Truthy(field) == field # <<>> /\ field[1] # <<>>

\* build with a line for every header field, blank when the field is absent
BuildBlankLines(b, email) ==
    JoinNl(<<PyStr(b.system_prompt), T_Empty, T_SchemaIntro, T_FenceJson, T_Schema,
             T_Fence, T_Empty>>
           \o (IF PyBool(b.examples)
               THEN <<T_ExamplesIntro, T_Empty>> \o ExamplesParts(b.examples.l, 1)
               ELSE <<>>)
           \o <<T_Now, T_Empty,
                T_Subject \o (IF Truthy(email.subject) THEN email.subject[1] ELSE T_NA),
                T_From \o (IF Truthy(email.from_addr) THEN email.from_addr[1] ELSE <<>>),
                T_To \o (IF Truthy(email.to_addr) THEN email.to_addr[1] ELSE <<>>),
                T_Date \o (IF Truthy(email.date) THEN email.date[1] ELSE <<>>),
                T_Empty, T_Body \o email.body_text, T_Empty, T_JsonOnly>>)

\* build: system prompt, schema, the examples if there are any, the email
Build(b, email) ==
    JoinNl(<<PyStr(b.system_prompt), T_Empty, T_SchemaIntro, T_FenceJson, T_Schema,
             T_Fence, T_Empty>>
           \o (IF PyBool(b.examples)
               THEN <<T_ExamplesIntro, T_Empty>> \o ExamplesParts(b.examples.l, 1)
               ELSE <<>>)
           \o <<T_Now, T_Empty,
                T_Subject \o (IF Truthy(email.subject) THEN email.subject[1] ELSE T_NA)>>
           \o (IF Truthy(email.from_addr) THEN <<T_From \o email.from_addr[1]>> ELSE <<>>)
           \o (IF Truthy(email.to_addr) THEN <<T_To \o email.to_addr[1]>> ELSE <<>>)
           \o (IF Truthy(email.date) THEN <<T_Date \o email.date[1]>> ELSE <<>>)
           \o <<T_Empty, T_Body \o email.body_text, T_Empty, T_JsonOnly>>)

\* a custom few-shot file: version 2.0, one example
CustomFewshot ==
    VDict(<<Member(K_version, VStr(<<"2", ".", "0">>)),
            Member(K_system, VStr(<<"C", "u", "s", "t", "o", "m">>)),
            Member(K_examples,
                   VList(<<VDict(<<Member(K_subject, VStr(<<"T", "e", "s", "t">>)),
                                   Member(K_body, VStr(<<"b", "o", "d", "y">>)),
                                   Member(K_output, VDict(<<>>))>>)>>))>>)

\* the file is missing, holds the custom bundle, an empty object, a list, or
\* a text that is no JSON
FewshotFiles ==
    {NoFile, FileWith(JsonDumps(CustomFewshot)), FileWith(<<"{", "}">>),
     FileWith(<<"[", "]">>), FileWith(<<"{", "v", "e", "r">>), FileWith(<<>>)}

\* absent, empty, or a text
OptionalTexts(t) == {<<>>, << <<>> >>, <<t>>}

PromptEmails ==
    {PromptEmail(s, f, t, d, b) :
        s \in OptionalTexts(<<"W", "a", "t", "e", "r">>),
        f \in OptionalTexts(<<"a", "@", "b">>),
        t \in {<<>>, << <<"c", "@", "d">> >>},
        d \in {<<>>, << <<"2", "0", "2", "4", "-", "0", "1", "-", "1", "5">> >>},
        b \in {<<"l", "e", "a", "d">>,
               <<"h", "i", "\n", "F", "r", "o", "m", ":", " ", "x">>}}

InitPrompt ==
    /\ ValidatorIdle
    /\ runs = <<>>
    /\ classifications = <<>>
    /\ emails = {}
    /\ opc = "idle"
    /\ orun = 0
    /\ gateway = [file \in FewshotFiles |-> LoadFewshot(file)]
    /\ wpc = <<>>
    /\ wemail = <<>>
    /\ ollama = NewClient
    /\ reviews = <<>>
    /\ items = <<>>
    /\ builder = NoBuilder
    /\ call = [op |-> "none", file |-> NoFile,
               email |-> PromptEmail(<<>>, <<>>, <<>>, <<>>, <<>>)]
    /\ ret = Returned(<<>>)

\* PromptBuilder(fewshot_path=..., version=...); gateway holds, for every
\* file, what _load_fewshot makes of it
NewPromptBuilderCall ==
    /\ \E file \in DOMAIN gateway, version \in {<<>>, << <<"3">> >>} :
           /\ call' = [op |-> "PromptBuilder", file |-> file,
                       email |-> PromptEmail(<<>>, <<>>, <<>>, <<>>, <<>>)]
           /\ IF NewPromptBuilder(gateway[file], version).raised = "None"
              THEN /\ builder' = NewPromptBuilder(gateway[file], version).value
                   /\ ret' = Returned(<<>>)
              ELSE /\ builder' = builder
                   /\ ret' = NewPromptBuilder(gateway[file], version)
    /\ UNCHANGED <<vvars, rvars, wvars, cvars, dvars>>

\* builder.build(email)
BuildCall ==
    /\ builder # NoBuilder
    /\ \E email \in PromptEmails :
           /\ call' = [op |-> "build", file |-> NoFile, email |-> email]
           /\ ret' = Returned(Build(builder, email))
    /\ UNCHANGED <<vvars, rvars, wvars, cvars, pvars, dvars>>

NextPrompt == NewPromptBuilderCall \/ BuildCall

SpecPrompt == InitPrompt /\ [][NextPrompt]_vars

(********************** claims on the prompt builder **********************)

\* C23: constructing a PromptBuilder never fails because of the few-shot
\* file: when it is missing and when its content is no parseable JSON, the
\* builder falls back to the default system prompt and schema with zero
\* examples.
C23_FallbackToDefault ==
    (/\ call.op = "PromptBuilder"
     /\ (~call.file.exists \/ ~JsonLoads(call.file.content).ok)) =>
        /\ ret.raised = "None"
        /\ builder.system_prompt = DefaultSystemPrompt
        /\ builder.examples = VList(<<>>)
        /\ builder.output_schema = DefaultSchema

\* the line of a header field: none when the field is absent or empty
HeaderLine(label, field) ==
    IF field = <<>> THEN <<>>
    ELSE IF Len(field[1]) = 0 THEN <<>> ELSE <<label \o field[1]>>

\* the lines the target email is to be rendered as
TargetSection(email) ==
    <<T_Now, T_Empty>>
    \o (IF HeaderLine(T_Subject, email.subject) = <<>>
        THEN <<T_Subject \o T_NA>> ELSE HeaderLine(T_Subject, email.subject))
    \o HeaderLine(T_From, email.from_addr)
    \o HeaderLine(T_To, email.to_addr)
    \o HeaderLine(T_Date, email.date)
    \o <<T_Empty, T_Body \o email.body_text, T_Empty, T_JsonOnly>>

\* text ends with tail
EndsWith(text, tail) ==
    /\ Len(tail) <= Len(text)
    /\ SubSeq(text, Len(text) - Len(tail) + 1, Len(text)) = tail

\* C24: build returns a prompt without raising, and the prompt ends with the
\* target-email section: one Subject line (N/A when the subject is absent or
\* empty), a From / To / Date line exactly for the fields that are present
\* and non-empty, the full body, and the JSON-only instruction last.
C24_TargetEmailSection ==
    call.op = "build" =>
        /\ ret.raised = "None"
        /\ EndsWith(ret.value, JoinNl(TargetSection(call.email)))

\* a build for an email without subject and sender, with a recipient, and
\* with a body that holds a line of its own starting with From:
C24_Witness ==
    /\ call.op = "build"
    /\ call.email.subject = << <<>> >>
    /\ call.email.from_addr = <<>>
    /\ call.email.to_addr # <<>>
    /\ Truthy(call.email.to_addr)
    /\ Len(call.email.body_text) > 4
    /\ PyBool(builder.examples)
    /\ ret.raised = "None"

(*************** classifications and reviews of an email ******************)

\* how many Classification and Review rows are created at most, together
MaxRecords == 2
\* the latest reading of the clock
MaxStamp == 2

\* created_at: default_factory=datetime.utcnow, set on the row just built
StampLast(rows, now) ==
    [rows EXCEPT ![Len(rows)] = @ @@ [created_at |-> now]]

\* the readings datetime.utcnow() can give: the clock did not move since the
\* last row of either table was created, or it moved on
Readings(cs, rs) ==
    LET stamps == {cs[i].created_at : i \in DOMAIN cs}
                  \cup {rs[i].created_at : i \in DOMAIN rs}
        last == IF stamps = {} THEN 0 ELSE SetMax(stamps)
    IN  {t \in {last, last + 1} : t <= MaxStamp}

\* create_review
CreateReview(rs, email_id, reviewer, final_responsive, note, changed_from_pred) ==
    Append(rs, [id |-> Len(rs) + 1, email_id |-> email_id, reviewer |-> reviewer,
                final_responsive |-> final_responsive, note |-> note,
                changed_from_pred |-> changed_from_pred])

\* .where(email_id == email_id).order_by(created_at.desc()).first(): None (0)
\* without a row of the email; else a row of the highest created_at, and the
\* order by leaves open which one when several rows share it
LatestByStamp(rows, email_id) ==
    LET mine == {i \in DOMAIN rows : rows[i].email_id = email_id}
    IN  IF mine = {} THEN {0}
        ELSE {rows[i].id : i \in {j \in mine :
                 \A k \in mine : rows[k].created_at <= rows[j].created_at}}

\* get_latest_classification: the rows it can return
GetLatestClassification(cs, email_id) == LatestByStamp(cs, email_id)

\* get_latest_review: the rows it can return
GetLatestReview(rs, email_id) == LatestByStamp(rs, email_id)

\* the confidences and reasons callers hand to create_classification
Confidences == {VFloat(5, 1), VFloat(15, 1), VFloat(-1, 1)}
Reasons == {<<"o", "k">>, Txt(ReasonColumnLen + 1)}

InitRecords ==
    /\ ValidatorIdle
    /\ runs = <<>>
    /\ classifications = <<>>
    /\ emails = EmailsOf(1)
    /\ opc = "idle"
    /\ orun = 0
    /\ gateway = <<>>
    /\ wpc = <<>>
    /\ wemail = <<>>
    /\ ollama = NewClient
    /\ builder = NoBuilder
    /\ reviews = <<>>
    /\ items = <<>>
    /\ call = [op |-> "none", email_id |-> 0]
    /\ ret = 0

\* create_classification(session, email_id, run_id, ..., confidence, labels, reason)
CreateClassificationCall ==
    /\ Len(classifications) + Len(reviews) < MaxRecords
    /\ \E e \in emails, confidence \in Confidences, reason \in Reasons,
          now \in Readings(classifications, reviews) :
           /\ classifications' =
                  StampLast(CreateClassification(classifications, e.id, NatStr(1), TRUE,
                                                 confidence, VList(<<>>), reason,
                                                 "completed"), now)
           /\ call' = [op |-> "create_classification", email_id |-> e.id]
           /\ ret' = Len(classifications) + 1
    /\ UNCHANGED <<vvars, runs, emails, opc, orun, gateway, wvars, cvars, pvars, dvars>>

\* create_review(session, email_id, reviewer, final_responsive)
CreateReviewCall ==
    /\ Len(classifications) + Len(reviews) < MaxRecords
    /\ \E e \in emails, final_responsive \in BOOLEAN,
          now \in Readings(classifications, reviews) :
           /\ reviews' = StampLast(CreateReview(reviews, e.id, "reviewer",
                                                final_responsive, "None", FALSE), now)
           /\ call' = [op |-> "create_review", email_id |-> e.id]
           /\ ret' = Len(reviews) + 1
    /\ UNCHANGED <<vvars, rvars, wvars, cvars, pvars, items>>

\* get_latest_classification(session, email_id)
GetLatestClassificationCall ==
    /\ \E e \in emails :
           /\ call' = [op |-> "get_latest_classification", email_id |-> e.id]
           /\ ret' \in GetLatestClassification(classifications, e.id)
    /\ UNCHANGED <<vvars, rvars, wvars, cvars, pvars, dvars>>

\* get_latest_review(session, email_id)
GetLatestReviewCall ==
    /\ \E e \in emails :
           /\ call' = [op |-> "get_latest_review", email_id |-> e.id]
           /\ ret' \in GetLatestReview(reviews, e.id)
    /\ UNCHANGED <<vvars, rvars, wvars, cvars, pvars, dvars>>

NextRecords ==
    \/ CreateClassificationCall
    \/ CreateReviewCall
    \/ GetLatestClassificationCall
    \/ GetLatestReviewCall

SpecRecords == InitRecords /\ [][NextRecords]_vars

(************* claims on the classifications and the reviews **************)

\* the id of the row of the email that was created last (0: there is none)
CreatedLast(rows, email_id) ==
    IF \A i \in DOMAIN rows : rows[i].email_id # email_id THEN 0
    ELSE SetMax({rows[i].id : i \in {j \in DOMAIN rows : rows[j].email_id = email_id}})

\* C25: get_latest_classification returns the Classification created last
\* for the email and get_latest_review the Review created last for it, also
\* when two records of the email carry the same creation timestamp.
C25_LatestIsCreatedLast ==
    /\ call.op = "get_latest_classification" =>
           ret = CreatedLast(classifications, call.email_id)
    /\ call.op = "get_latest_review" => ret = CreatedLast(reviews, call.email_id)

\* C26: every stored Classification has a confidence within [0.0, 1.0] and a
\* reason of at most 200 characters.
C26_StoredWithinBounds ==
    \A i \in DOMAIN classifications :
        /\ ~FloatLess(classifications[i].confidence, VFloat(0, 0))
        /\ ~FloatLess(VFloat(1, 0), classifications[i].confidence)
        /\ Len(classifications[i].reason) <= 200

(******************** the upload endpoint (ingest.py) *********************)

\* how many files one request uploads at most
MaxFiles == 3

DotTxt == <<".", "t", "x", "t">>

\* an uploaded file: its name, its content, whether validate_email_file
\* accepts the saved copy, and whether saving and parsing it raise nothing
UploadFile(filename, content, is_valid, parses) ==
    [filename |-> filename, content |-> content, is_valid |-> is_valid,
     parses |-> parses]

\* parse_email_file, then parsed['path'] = upload_file.filename: sha256 is
\* the hash of the whole file content
Parsed(f) == EmailData(f.filename, f.content, Sha256(f.content))

\* one pass of the loop over the files with no entry in errors for a file
\* that validate_email_file turns down
ProcessFileSilent(acc, f) ==
    IF ~EndsWith(f.filename, DotTxt)
    THEN [acc EXCEPT !.errors = Append(@, f.filename)]
    ELSE IF ~f.parses THEN [acc EXCEPT !.errors = Append(@, f.filename)]
    ELSE IF ~f.is_valid THEN acc
    ELSE [acc EXCEPT !.emails_data = Append(@, Parsed(f)),
                     !.processed_files = Append(@, f.filename)]

\* one pass of the loop over the files: an entry in errors for a name not
\* ending in .txt, for a file that is not valid and for an exception; else
\* the parsed email joins emails_data
ProcessFile(acc, f) ==
    IF ~EndsWith(f.filename, DotTxt)
    THEN [acc EXCEPT !.errors = Append(@, f.filename)]
    ELSE IF ~f.parses THEN [acc EXCEPT !.errors = Append(@, f.filename)]
    ELSE IF ~f.is_valid THEN [acc EXCEPT !.errors = Append(@, f.filename)]
    ELSE [acc EXCEPT !.emails_data = Append(@, Parsed(f)),
                     !.processed_files = Append(@, f.filename)]

RECURSIVE ProcessFiles(_, _, _)
\* for upload_file in files
ProcessFiles(acc, files, i) ==
    IF i > Len(files) THEN acc
    ELSE ProcessFiles(ProcessFile(acc, files[i]), files, i + 1)

\* ingest_emails for an existing project: the rows afterwards and the
\* response (bulk_create_emails is called only for a non-empty emails_data)
IngestEmails(es, project_id, files) ==
    LET acc == ProcessFiles([emails_data |-> <<>>, errors |-> <<>>,
                             processed_files |-> <<>>], files, 1)
        bulk == IF acc.emails_data # <<>>
                THEN BulkCreateEmails(es, project_id, acc.emails_data)
                ELSE [emails |-> es, created |-> 0, duplicates |-> 0]
    IN  [emails |-> bulk.emails,
         content |-> [count |-> bulk.created, duplicates |-> bulk.duplicates,
                      processed_files |-> acc.processed_files,
                      errors |-> acc.errors]]

\* the files of the model: one content under two names, a file of another
\* type, a file the validation turns down, a file that fails to parse
UploadFiles ==
    {UploadFile(<<"a">> \o DotTxt, "content 1", TRUE, TRUE),
     UploadFile(<<"b">> \o DotTxt, "content 1", TRUE, TRUE),
     UploadFile(<<"d", ".", "p", "d", "f">>, "content 3", TRUE, TRUE),
     UploadFile(<<"e">> \o DotTxt, "content 4", FALSE, TRUE),
     UploadFile(<<"f">> \o DotTxt, "content 5", TRUE, FALSE)}

Uploads == UNION {[1..n -> UploadFiles] : n \in 1..MaxFiles}

InitUpload ==
    /\ ValidatorIdle
    /\ runs = <<>>
    /\ classifications = <<>>
    /\ emails = {}
    /\ opc = "idle"
    /\ orun = 0
    /\ gateway = <<>>
    /\ wpc = <<>>
    /\ wemail = <<>>
    /\ ollama = NewClient
    /\ builder = NoBuilder
    /\ reviews = <<>>
    /\ items = <<>>
    /\ call = [op |-> "none", project_id |-> 0, files |-> <<>>]
    /\ ret = [count |-> 0, duplicates |-> 0, processed_files |-> <<>>, errors |-> <<>>]

\* POST /api/ingest/ with the id of an existing project
IngestEmailsCall ==
    /\ \E project_id \in {1}, files \in Uploads :
           /\ call' = [op |-> "ingest_emails", project_id |-> project_id,
                       files |-> files]
           /\ emails' = IngestEmails(emails, project_id, files).emails
           /\ ret' = IngestEmails(emails, project_id, files).content
    /\ UNCHANGED <<vvars, runs, classifications, opc, orun, gateway, wvars, cvars,
                   pvars, dvars>>

NextUpload == IngestEmailsCall

SpecUpload == InitUpload /\ [][NextUpload]_vars

(********************** claims on the upload endpoint *********************)

\* the uploaded files that fail the type check, the validation or the parse
Rejected(files) ==
    {i \in DOMAIN files :
        \/ ~EndsWith(files[i].filename, DotTxt)
        \/ ~files[i].is_valid
        \/ ~files[i].parses}

\* C27: the response of an ingest request accounts for every uploaded file
\* once: created count plus duplicates plus the number of error entries is the
\* number of uploaded files, and the files that failed the type check, the
\* validation or the parse are the files named in errors.
C27_EveryFileAccounted ==
    call.op = "ingest_emails" =>
        /\ ret.count + ret.duplicates + Len(ret.errors) = Len(call.files)
        /\ Len(ret.errors) = Cardinality(Rejected(call.files))
        /\ \A i \in Rejected(call.files) :
               \E j \in DOMAIN ret.errors : ret.errors[j] = call.files[i].filename

\* a response with a created email, a duplicate and an error entry
C27_Witness ==
    /\ call.op = "ingest_emails"
    /\ ret.count > 0
    /\ ret.duplicates > 0
    /\ Len(ret.errors) > 0
    /\ \E i \in DOMAIN call.files : ~call.files[i].is_valid

(******************* sampling items and their labels **********************)

\* how many SamplingItem rows there are
MaxSamplingItems == 3

\* a SamplingItem row: human_label and reviewer are None (the empty tuple)
\* until the item is labeled
SamplingItem(id, sampling_id, email_id) ==
    [id |-> id, sampling_id |-> sampling_id, email_id |-> email_id,
     human_label |-> <<>>, reviewer |-> <<>>, reviewed |-> FALSE]

\* update_sampling_item_label: no row, nothing changes; else the label, the
\* reviewer and the review time are set
UpdateSamplingItemLabel(its, item_id, human_label, reviewer) ==
    [i \in DOMAIN its |->
        IF its[i].id = item_id
        THEN [its[i] EXCEPT !.human_label = <<human_label>>,
                            !.reviewer = <<reviewer>>, !.reviewed = TRUE]
        ELSE its[i]]

\* get_next_unlabeled_item taking a label of False for no label
GetNextUnlabeledItemFalsy(its, sampling_id) ==
    LET open == {its[i].id : i \in {j \in DOMAIN its :
                     /\ its[j].sampling_id = sampling_id
                     /\ its[j].human_label \in {<<>>, <<FALSE>>}}}
    IN  IF open = {} THEN 0 ELSE SetMin(open)

\* get_next_unlabeled_item: where sampling_id matches and human_label IS
\* NULL, order by id, first row (0 stands for None)
GetNextUnlabeledItem(its, sampling_id) ==
    LET open == {its[i].id : i \in {j \in DOMAIN its :
                     /\ its[j].sampling_id = sampling_id
                     /\ its[j].human_label = <<>>}}
    IN  IF open = {} THEN 0 ELSE SetMin(open)

InitSampling ==
    /\ ValidatorIdle
    /\ runs = <<>>
    /\ classifications = <<>>
    /\ emails = {}
    /\ opc = "idle"
    /\ orun = 0
    /\ gateway = <<>>
    /\ wpc = <<>>
    /\ wemail = <<>>
    /\ ollama = NewClient
    /\ builder = NoBuilder
    /\ reviews = <<>>
    /\ \E of \in [1..MaxSamplingItems -> {1, 2}] :
           items = [i \in 1..MaxSamplingItems |-> SamplingItem(i, of[i], i)]
    /\ call = [op |-> "none", sampling_id |-> 0, item_id |-> 0]
    /\ ret = 0

\* get_next_unlabeled_item(session, sampling_id)
GetNextUnlabeledItemCall ==
    /\ \E sampling_id \in {1, 2} :
           /\ call' = [op |-> "get_next_unlabeled_item", sampling_id |-> sampling_id,
                       item_id |-> 0]
           /\ ret' = GetNextUnlabeledItem(items, sampling_id)
    /\ UNCHANGED <<vvars, rvars, wvars, cvars, pvars, dvars>>

\* update_sampling_item_label(session, item_id, human_label, reviewer)
UpdateSamplingItemLabelCall ==
    /\ \E item_id \in 1..(MaxSamplingItems + 1), human_label \in BOOLEAN :
           /\ call' = [op |-> "update_sampling_item_label", sampling_id |-> 0,
                       item_id |-> item_id]
           /\ items' = UpdateSamplingItemLabel(items, item_id, human_label, "reviewer")
           /\ ret' = IF item_id \in DOMAIN items THEN item_id ELSE 0
    /\ UNCHANGED <<vvars, rvars, wvars, cvars, pvars, reviews>>

NextSampling == GetNextUnlabeledItemCall \/ UpdateSamplingItemLabelCall

SpecSampling == InitSampling /\ [][NextSampling]_vars

(*********************** claims on sampling items *************************)

\* the ids of the items of the sampling that have no human label
Unlabeled(its, sampling_id) ==
    {its[i].id : i \in {j \in DOMAIN its :
        its[j].sampling_id = sampling_id /\ Len(its[j].human_label) = 0}}

\* a get_next_unlabeled_item step returns nothing when the sampling has no
\* unlabeled item, else its unlabeled item of the lowest id
GetNextEffect ==
    call'.op = "get_next_unlabeled_item" =>
        /\ Unlabeled(items', call'.sampling_id) = {} => ret' = 0
        /\ Unlabeled(items', call'.sampling_id) # {} =>
               /\ ret' \in Unlabeled(items', call'.sampling_id)
               /\ \A id \in Unlabeled(items', call'.sampling_id) : ret' <= id

\* labeling the item a get_next_unlabeled_item step returned takes exactly
\* that item out of the unlabeled items, whatever the label
LabelEffect ==
    (/\ call.op = "get_next_unlabeled_item"
     /\ ret # 0
     /\ call'.op = "update_sampling_item_label"
     /\ call'.item_id = ret) =>
        Unlabeled(items', call.sampling_id) = Unlabeled(items, call.sampling_id) \ {ret}

\* C28: get_next_unlabeled_item never returns a labeled item (a label of
\* false counts as labeled) nor an item of another sampling; it returns the
\* unlabeled item of the lowest id, and labeling the returned item removes it
\* and only it from the items still to be returned, so a review loop visits
\* every item once and then gets nothing.
C28_NextUnlabeledLowestId == [][GetNextEffect /\ LabelEffect]_vars

\* get_next_unlabeled_item returned an item while an item of the sampling
\* with a lower id is labeled false and another sampling has a lower
\* unlabeled item
C28_Witness ==
    /\ call.op = "get_next_unlabeled_item"
    /\ ret > 1
    /\ \E i \in DOMAIN items :
           /\ items[i].id < ret
           /\ items[i].sampling_id = call.sampling_id
           /\ items[i].human_label = <<FALSE>>
    /\ \E i \in DOMAIN items :
           /\ items[i].id < ret
           /\ items[i].sampling_id # call.sampling_id
           /\ items[i].human_label = <<>>

(************* create_email from two sessions at the same time ************)

\* how many Email rows the sessions store at most
MaxStored == 3

\* a session that is not inside create_email
NoLookup == [project_id |-> 0, path |-> "", sha256 |-> <<>>, existing |-> {}]

InitSessions ==
    /\ ValidatorIdle
    /\ runs = <<>>
    /\ classifications = <<>>
    /\ emails = {}
    /\ opc = "idle"
    /\ orun = 0
    /\ gateway = <<>>
    /\ wpc = [w \in Workers |-> "idle"]
    /\ wemail = [w \in Workers |-> NoLookup]
    /\ ollama = NewClient
    /\ builder = NoBuilder
    /\ reviews = <<>>
    /\ items = <<>>
    /\ call = [op |-> "none"]
    /\ ret = "None"

\* create_email up to the duplicate check: the hash, and the row
\* get_email_by_sha256 finds among the committed rows
SessionLookup(w) ==
    /\ wpc[w] = "idle"
    /\ Cardinality(emails) < MaxStored
    /\ \E project_id \in {1, 2}, d \in BatchItems :
           wemail' = [wemail EXCEPT ![w] =
               [project_id |-> project_id, path |-> d.path,
                sha256 |-> HashOf(d.sha256, d.body_text),
                existing |-> GetEmailBySha256(emails, project_id,
                                              HashOf(d.sha256, d.body_text))]]
    /\ wpc' = [wpc EXCEPT ![w] = "looked"]
    /\ UNCHANGED <<vvars, rvars, call, ret, cvars, pvars, dvars>>

\* if existing: return existing
SessionReturnExisting(w) ==
    /\ wpc[w] = "looked"
    /\ wemail[w].existing # {}
    /\ wpc' = [wpc EXCEPT ![w] = "idle"]
    /\ wemail' = [wemail EXCEPT ![w] = NoLookup]
    /\ UNCHANGED <<vvars, rvars, call, ret, cvars, pvars, dvars>>

\* session.add(email); session.commit(): nothing the table declares stands
\* against a second row of the same project and hash
SessionInsert(w) ==
    /\ wpc[w] = "looked"
    /\ wemail[w].existing = {}
    /\ emails' = emails \cup {StoredEmail(NextEmailId(emails), wemail[w].project_id,
                                          wemail[w].path, wemail[w].sha256)}
    /\ wpc' = [wpc EXCEPT ![w] = "idle"]
    /\ wemail' = [wemail EXCEPT ![w] = NoLookup]
    /\ UNCHANGED <<vvars, runs, classifications, opc, orun, gateway, call, ret, cvars,
                   pvars, dvars>>

NextSessions ==
    \E w \in Workers : SessionLookup(w) \/ SessionReturnExisting(w) \/ SessionInsert(w)

SpecSessions == InitSessions /\ [][NextSessions]_vars

\* C29: also when two ingestions of the same content into the same project
\* both run their duplicate lookup before either commits its insert, at most
\* one Email of that project and hash is stored afterwards.
C29_OneCopyUnderConcurrency ==
    \A project_id \in {1, 2}, d \in BatchItems :
        Cardinality({e \in emails :
            /\ e.project_id = project_id
            /\ e.sha256 = HashOf(d.sha256, d.body_text)}) <= 1

(************ the /models endpoint and the shared model cache *************)

\* ModelInfo: the fields the endpoint reads
ModelInfo(name, size) == [name |-> name, size |-> size]

\* what /api/tags answers with: no model, or models not in the order of
\* their sizes, or a failure
ModelLists ==
    {<<>>,
     <<ModelInfo("gemma3:4b", 3), ModelInfo("phi4-mini:3.8b", 2)>>,
     <<ModelInfo("llama3", 5), ModelInfo("phi4-mini:3.8b", 2), ModelInfo("gemma3:4b", 3)>>}

RECURSIVE InsertBySize(_, _)
\* m goes behind the models that are not larger
InsertBySize(sorted, m) ==
    IF sorted = <<>> THEN <<m>>
    ELSE IF sorted[Len(sorted)].size <= m.size THEN Append(sorted, m)
    ELSE Append(InsertBySize(SubSeq(sorted, 1, Len(sorted) - 1), m), sorted[Len(sorted)])

RECURSIVE SortBySize(_, _)
\* models.sort(key=lambda m: m.size): the first n models in order (stable)
SortBySize(models, n) ==
    IF n = 0 THEN <<>> ELSE InsertBySize(SortBySize(models, n - 1), models[n])

\* what the caller does with the list it got: list_models called directly
\* leaves it alone, the endpoint sorts it in place
AfterCaller(caller, models) ==
    IF caller = "endpoint" THEN SortBySize(models, Len(models)) ELSE models

\* a caller that is not inside list_models
NotCalling == "none"

InitModels ==
    /\ ValidatorIdle
    /\ runs = <<>>
    /\ classifications = <<>>
    /\ emails = {}
    /\ opc = "idle"
    /\ orun = 0
    /\ gateway = <<>>
    /\ wpc = [w \in Workers |-> "idle"]
    /\ wemail = [w \in Workers |-> NotCalling]
    /\ ollama = NewClient
    /\ builder = NoBuilder
    /\ reviews = <<>>
    /\ items = <<>>
    /\ call = [op |-> "none", caller |-> NotCalling, hit |-> FALSE]
    /\ ret = Returned(<<>>)

\* list_models up to its await: a fresh cache is returned as the list object
\* it is, so the endpoint's sort reorders the cached list itself; else the
\* request is sent
ListModelsBegin(w) ==
    /\ wpc[w] = "idle"
    /\ \E caller \in {"direct", "endpoint"} :
           IF CacheFresh(ollama)
           THEN /\ ollama' = [ollama EXCEPT !.model_cache =
                                  <<AfterCaller(caller, ollama.model_cache[1])>>]
                /\ ret' = Returned(AfterCaller(caller, ollama.model_cache[1]))
                /\ call' = [op |-> "list_models", caller |-> caller, hit |-> TRUE]
                /\ UNCHANGED wvars
           ELSE /\ wpc' = [wpc EXCEPT ![w] = "awaiting"]
                /\ wemail' = [wemail EXCEPT ![w] = caller]
                /\ call' = [op |-> "request", caller |-> caller, hit |-> FALSE]
                /\ ret' = Returned(<<>>)
                /\ UNCHANGED ollama
    /\ UNCHANGED <<vvars, rvars, pvars, dvars>>

\* the answer arrives: the list and the timestamp are set one after the
\* other with no await between, and the list returned is the cached object
ListModelsEnd(w) ==
    /\ wpc[w] = "awaiting"
    /\ \E models \in ModelLists :
           /\ ollama' = [ollama EXCEPT
                             !.model_cache = <<AfterCaller(wemail[w], models)>>,
                             !.cache_timestamp = <<ollama.now>>,
                             !.fetched_at = <<ollama.now>>,
                             !.cleared = FALSE]
           /\ gateway' = <<models>>
           /\ ret' = Returned(AfterCaller(wemail[w], models))
    /\ call' = [op |-> "list_models", caller |-> wemail[w], hit |-> FALSE]
    /\ wpc' = [wpc EXCEPT ![w] = "idle"]
    /\ wemail' = [wemail EXCEPT ![w] = NotCalling]
    /\ UNCHANGED <<vvars, runs, classifications, emails, opc, orun, pvars, dvars>>

\* the request fails: the cache is left as it is
ListModelsFail(w) ==
    /\ wpc[w] = "awaiting"
    /\ ret' = Raised(Handle("ConnectError"))
    /\ call' = [op |-> "list_models", caller |-> wemail[w], hit |-> FALSE]
    /\ wpc' = [wpc EXCEPT ![w] = "idle"]
    /\ wemail' = [wemail EXCEPT ![w] = NotCalling]
    /\ UNCHANGED <<vvars, rvars, cvars, pvars, dvars>>

\* clear_cache()
ClearModelCache ==
    /\ ollama.model_cache # <<>>
    /\ ollama' = ClearCache(ollama)
    /\ call' = [op |-> "clear_cache", caller |-> NotCalling, hit |-> FALSE]
    /\ ret' = Returned(<<>>)
    /\ UNCHANGED <<vvars, rvars, wvars, pvars, dvars>>

\* a minute passes
TickModels ==
    /\ ollama.now < MaxClock
    /\ ollama' = [ollama EXCEPT !.now = @ + 1]
    /\ call' = [op |-> "none", caller |-> NotCalling, hit |-> FALSE]
    /\ ret' = Returned(<<>>)
    /\ UNCHANGED <<vvars, rvars, wvars, pvars, dvars>>

NextModels ==
    \/ \E w \in Workers : ListModelsBegin(w) \/ ListModelsEnd(w) \/ ListModelsFail(w)
    \/ ClearModelCache
    \/ TickModels

SpecModels == InitModels /\ [][NextModels]_vars

\* C30: within the TTL list_models returns the models in the order the
\* upstream returned them at the last successful fetch, whatever a caller did
\* with a list it got earlier; the cache holds the result of the refresh that
\* finished last, and the cached list and its timestamp are both set or both
\* unset.
C30_CacheKeepsUpstreamOrder ==
    /\ (ollama.model_cache = <<>>) = (ollama.cache_timestamp = <<>>)
    /\ (call.op = "list_models" /\ call.caller = "direct" /\ ret.raised = "None") =>
           ret.value = gateway[1]
====
